---- MODULE Spec2Model ----
(***************************************************************************)
(* Verification model of the naebak notifications service.                 *)
(*                                                                         *)
(*   SpecTracker  DeliveryTracker (delivery_tracker.py): one delivery      *)
(*                record driven by update_delivery_status, mark_for_retry  *)
(*                and cancel_delivery, with a wall clock.                  *)
(*   SpecCelery   the send_notification Celery task (celery_tasks.py) on   *)
(*                one Notification row (models.py), with Celery's retry    *)
(*                protocol and the database session's commit/rollback.     *)
(*   FairCelery   SpecCelery on fewer inputs, with the worker's fairness.  *)
(*   SpecEval     the pure decision functions: the preference evaluator    *)
(*                (template_system.py) and the two retryability tables     *)
(*                (constants.py, delivery_tracker.py).                     *)
(*   SpecRouter   NotificationRouter.route_request and the CircuitBreaker   *)
(*                of one service (routing_system.py), with a wall clock.   *)
(*   SpecWorkerBreaker  the send_notification task next to a breaker that  *)
(*                is Closed or Open.                                       *)
(*   SpecFleet    many send_notification tasks of one channel, counted.    *)
(*   SpecQueue    the admission endpoint and the queue worker of app.py    *)
(*                on the Redis list notification_queue.                    *)
(*   SpecMetrics  MetricsCollector (analytics.py): one counter, its buffer *)
(*                and its minute, hour and day buckets in Redis.           *)
(*   SpecTrackerAged  SpecTracker with a clock that passes MAX_RETRY_AGE.  *)
(*   SpecScheduled  send_notification next to the tasks that enqueue it:   *)
(*                process_scheduled_notifications, send_batch_notifications.*)
(*   SpecRender   send_notification on a notification made from a template.*)
(*   SpecAttempts the tracker on a record that takes several attempts;     *)
(*   FairAttempts the same, with a clock that keeps running.               *)
(*   SpecPreferences  UserPreferenceManager (template_system.py): the rows *)
(*                of one (user, type, channel) key, two sessions.          *)
(*   SpecTemplates  create_template and the active templates of one type.  *)
(*   SpecInbox    the three in-app adapters on one user's Redis list.      *)
(*   SpecMetricsLifetime  MetricsCollector up to the exit of the process.  *)
(*   SpecRegistry  _get_circuit_breaker (routing_system.py) called by two  *)
(*                request threads for one service name.                    *)
(*   SpecBatch    two runs of send_batch_notifications (celery_tasks.py).  *)
(*   SpecService  NotificationService.send_notification (notifications.py).*)
(*   SpecLockout  the IP lock-out of SecurityMiddleware                    *)
(*                (security_middleware.py), with a wall clock.             *)
(***************************************************************************)
EXTENDS Integers, Sequences, FiniteSets, TLC

VARIABLES
    now,        \* wall clock, seconds (datetime.utcnow())
    record,     \* the DeliveryRecord held in DeliveryTracker.delivery_records
    lastCall,   \* last tracker call and its return value
    notif,      \* the Notification row as committed in the database
    pref,       \* the UserNotificationPreference row of (user, type, channel), or NoPref
    tasks,      \* send_notification task instances known to the Celery broker
    hist,       \* what the worker did to the notification (observation only)
    query,      \* SpecEval: the inputs of the last evaluation
    answer,     \* SpecEval: its result
    breaker,    \* the CircuitBreaker of one service (routing_system.py)
    router,     \* the route_request in progress and its last result
    fleet,      \* send_notification tasks of one channel waiting in the broker
    redis,      \* app.py: is redis_client set, and does the server answer
    queue,      \* app.py: the Redis list notification_queue
    httpcall,   \* app.py: the last admission request and its response
    qhist,      \* app.py: what was enqueued and dequeued (observation only)
    metrics,    \* analytics.py: the metrics buffer and the Redis buckets of one counter
    rendering,  \* the template of the Notification row and its content column
    scheduled_at, \* the scheduled_at column of the Notification row
    preferences, \* the rows of one key in user_notification_preferences, and the last call
    templates,  \* the rows of one (type, channel) in notification_templates, and the last call
    inbox,      \* the Redis list user_notifications:<user_id> of one user
    registry,   \* ServiceRegistry.circuit_breakers and the routing threads
    batch,      \* notification rows and runs of send_batch_notifications
    service,    \* last NotificationService.send_notification call
    lockout     \* SecurityMiddleware lock-out state of one client IP

vars == <<now, record, lastCall, notif, pref, tasks, hist, query, answer,
          breaker, router, fleet, redis, queue, httpcall, qhist,
          metrics, rendering, scheduled_at,
          preferences,
          templates,
          inbox,
          registry,
          batch,
          service,
          lockout>>

trackerVars == <<now, record, lastCall>>
celeryVars  == <<notif, pref, tasks, hist, rendering>>
evalVars    == <<query, answer>>
routerVars  == <<breaker, router>>
fleetVars   == <<fleet>>
queueVars   == <<redis, queue, httpcall, qhist>>
metricsVars == <<metrics>>
scheduleVars == <<scheduled_at>>
peripheryVars == <<preferences, templates, inbox, registry, batch, service, lockout>>
coreVars == <<trackerVars, celeryVars, evalVars, routerVars, fleetVars, queueVars,
              metricsVars, scheduleVars>>

(***************************************************************************)
(* Bounds of the model                                                     *)
(***************************************************************************)
MaxTicks == 1           \* the clock runs to MaxTicks * TickSeconds
TickSeconds == 60       \* granularity of the clock
MaxAttempts == 1        \* attempts recorded on the delivery record
MaxMaxRetries == 6      \* largest max_retries a record or notification is given
DayLen == 4             \* time-of-day points (quiet hours, wall clock)

Min(a, b) == IF a <= b THEN a ELSE b

NoTime == -1            \* None for an Optional[datetime]

DefaultMaxRetries == 3  \* DeliveryRecord.max_retries, Notification.max_retries

(***************************************************************************)
(* delivery_tracker.py: enumerations                                       *)
(***************************************************************************)
DeliveryStatus ==
    {"pending", "queued", "sending", "sent", "delivered", "read",
     "failed", "bounced", "rejected", "expired", "cancelled"}

FailureReason ==
    {"invalid_recipient", "network_error", "service_unavailable", "rate_limited",
     "authentication_failed", "content_rejected", "recipient_blocked",
     "quota_exceeded", "timeout", "unknown"}

NoReason == "none"      \* failure_reason = None

\* The statuses whose branch of update_delivery_status classifies the failure.
FailedStatuses == {"failed", "bounced", "rejected"}

(***************************************************************************)
(* Error messages are modelled by the term groups they contain (the        *)
(* substrings _categorize_failure looks for); {} is None or "".            *)
(***************************************************************************)
TermNetwork == "network"    \* 'timeout', 'connection', 'network'
TermAuth    == "auth"       \* 'auth', 'unauthorized', 'forbidden'
TermRate    == "rate"       \* 'rate limit', 'throttle', 'quota'
TermInvalid == "invalid"    \* 'invalid', 'not found', 'does not exist'
TermContent == "content"    \* 'spam', 'blocked', 'rejected'
TermOther   == "other"      \* text with none of the terms

ErrorMessages ==
    {{}, {TermOther}, {TermNetwork}, {TermAuth}, {TermRate}, {TermInvalid},
     {TermContent}, {TermNetwork, TermAuth}, {TermRate, TermInvalid}}

NoCode == 0                 \* response_code = None
ResponseCodes == {NoCode, 400, 401, 403, 404, 429, 500, 503}

\* the (error_message, response_code) pairs put to update_delivery_status:
\* every message alone, every code with no message and with a message that has
\* none of the terms, and messages that name a term beside a code
FailureInputs ==
    {<<m, NoCode>> : m \in ErrorMessages}
    \cup {<<m, c>> : m \in {{}, {TermOther}}, c \in ResponseCodes}
    \cup {<<{TermNetwork}, 401>>, <<{TermContent}, 500>>, <<{TermInvalid}, 429>>}

\* DeliveryTracker._categorize_failure
CategorizeFailure(msg, code) ==
    IF msg = {} /\ code = NoCode THEN "unknown"
    ELSE IF TermNetwork \in msg THEN "network_error"
    ELSE IF TermAuth \in msg THEN "authentication_failed"
    ELSE IF TermRate \in msg THEN "rate_limited"
    ELSE IF TermInvalid \in msg THEN "invalid_recipient"
    ELSE IF TermContent \in msg THEN "content_rejected"
    ELSE IF code = 401 THEN "authentication_failed"
    ELSE IF code = 403 THEN "recipient_blocked"
    ELSE IF code = 404 THEN "invalid_recipient"
    ELSE IF code = 429 THEN "rate_limited"
    ELSE IF code /= NoCode /\ code >= 500 THEN "service_unavailable"
    ELSE "unknown"

\* DeliveryTracker._should_retry
ShouldRetry(failure_reason) ==
    failure_reason \notin
        {"invalid_recipient", "recipient_blocked", "content_rejected",
         "authentication_failed"}

\* delays of DeliveryTracker._calculate_next_retry
Delays == <<60, 300, 900, 1800, 3600>>

\* A mutant of _calculate_next_retry: the index is not shifted by one.
CalculateNextRetryUnshifted(retry_count, t) ==
    t + Delays[Min(retry_count, Len(Delays) - 1) + 1]

\* Python list indexing: a negative index counts from the end
PyIndex(list, i) == IF i < 0 THEN list[Len(list) + i + 1] ELSE list[i + 1]

\* DeliveryTracker._calculate_next_retry, at clock value t
CalculateNextRetry(retry_count, t) ==
    t + PyIndex(Delays, Min(retry_count - 1, Len(Delays) - 1))

(***************************************************************************)
(* DeliveryTracker operations on the record                                *)
(***************************************************************************)
\* DeliveryTracker.create_delivery_record (max_retries is the dataclass field;
\* records loaded from Redis carry the stored value)
NewRecord(max_retries) ==
    [status |-> "pending", retry_count |-> 0, max_retries |-> max_retries,
     next_retry_at |-> NoTime, failure_reason |-> NoReason, attempts |-> <<>>]

\* A mutant of the retry guard: the budget test is <= instead of <.
RetryBudgetLeftInclusive(r) == r.retry_count <= r.max_retries

\* the budget test of update_delivery_status and mark_for_retry
RetryBudgetLeft(r) == r.retry_count < r.max_retries

\* A mutant of update_delivery_status: the attempt is appended and the status
\* of the record is left as it was.
UpdatedRecordKeepingStatus(r, status, msg, code, t) ==
    [r EXCEPT !.attempts = Append(@, [timestamp |-> t, status |-> status])]

\* A mutant of update_delivery_status: the attempt is put in front of the list.
UpdatedRecordPrepending(r, status, msg, code, t) ==
    [r EXCEPT !.attempts = <<[timestamp |-> t, status |-> status]>> \o @,
              !.status = status]

\* the record after update_delivery_status(status, error_message, response_code)
UpdatedRecord(r, status, msg, code, t) ==
    LET withAttempt ==
            [r EXCEPT !.attempts = Append(@, [timestamp |-> t, status |-> status]),
                      !.status = status]
        reason == CategorizeFailure(msg, code)
        classified == [withAttempt EXCEPT !.failure_reason = reason]
    IN  IF status \in FailedStatuses
        THEN IF RetryBudgetLeft(r) /\ ShouldRetry(reason)
             THEN [classified EXCEPT
                       !.retry_count = @ + 1,
                       !.next_retry_at = CalculateNextRetry(r.retry_count + 1, t),
                       !.status = "queued"]
             ELSE classified
        ELSE withAttempt

\* DeliveryTracker.update_delivery_status, called with a status of statuses
\* and, for a failure, inputs of inputs, while fewer than limit attempts are
\* on the record
UpdateDeliveryStatusOf(limit, statuses, inputs) ==
    /\ Len(record.attempts) < limit
    /\ \E status \in statuses :
          IF status \in FailedStatuses
          THEN \E in \in inputs :
                  record' = UpdatedRecord(record, status, in[1], in[2], now)
          ELSE record' = UpdatedRecord(record, status, {}, NoCode, now)
    /\ lastCall' = [op |-> "update", ok |-> TRUE]
    /\ UNCHANGED now

\* DeliveryTracker.update_delivery_status
UpdateDeliveryStatus == UpdateDeliveryStatusOf(MaxAttempts, DeliveryStatus, FailureInputs)

MaxLogAttempts == 2     \* attempts recorded where the attempt log is followed
LogStatuses == {"sending", "sent", "failed"}
LogInputs == {<<{TermNetwork}, NoCode>>, <<{TermInvalid}, NoCode>>}

\* DeliveryTracker.update_delivery_status, on a longer attempt log
UpdateDeliveryStatusLogged ==
    UpdateDeliveryStatusOf(MaxLogAttempts, LogStatuses, LogInputs)

\* delay_seconds arguments of mark_for_retry; 0 is None (falsy in the code)
DelayArgs == {0, 30}

\* DeliveryTracker.mark_for_retry
MarkForRetry ==
    /\ \E delay_seconds \in DelayArgs :
          IF ~RetryBudgetLeft(record)
          THEN /\ record' = record
               /\ lastCall' = [op |-> "mark", ok |-> FALSE]
          ELSE /\ record' =
                     [record EXCEPT
                         !.retry_count = @ + 1,
                         !.status = "queued",
                         !.next_retry_at =
                             IF delay_seconds /= 0
                             THEN now + delay_seconds
                             ELSE CalculateNextRetry(record.retry_count + 1, now)]
               /\ lastCall' = [op |-> "mark", ok |-> TRUE]
    /\ UNCHANGED now

\* DeliveryTracker.cancel_delivery
CancelDelivery ==
    /\ IF record.status \in {"delivered", "read"}
       THEN /\ record' = record
            /\ lastCall' = [op |-> "cancel", ok |-> FALSE]
       ELSE /\ record' = [record EXCEPT !.status = "cancelled"]
            /\ lastCall' = [op |-> "cancel", ok |-> TRUE]
    /\ UNCHANGED now

\* DeliveryTracker.get_retry_queue: is the record returned at the current time
InRetryQueue ==
    /\ record.status = "queued"
    /\ record.next_retry_at /= NoTime
    /\ record.next_retry_at <= now

\* time passes
Tick ==
    /\ now < MaxTicks * TickSeconds
    /\ now' = now + TickSeconds
    /\ UNCHANGED <<record, lastCall>>

MAX_RETRY_AGE == 24     \* constants.MAX_RETRY_AGE, in hours (read by nobody)

\* MAX_RETRY_AGE hours pass at once
TickMaxRetryAge ==
    /\ now < MAX_RETRY_AGE * 3600
    /\ now' = now + MAX_RETRY_AGE * 3600
    /\ UNCHANGED <<record, lastCall>>

(***************************************************************************)
(* models.py: enumerations and the Notification row                        *)
(***************************************************************************)
NotificationStatus ==
    {"pending", "queued", "processing", "sent", "delivered", "failed", "cancelled"}

NotificationPriority == {"low", "normal", "high", "urgent"}

NotificationType ==
    {"welcome", "security", "message", "complaint", "election", "system",
     "reminder", "marketing"}

Frequencies == {"immediate", "daily", "weekly", "disabled"}

NoPref == [none |-> TRUE]   \* the query for the preference row returns None

TimesOfDay == 0 .. (DayLen - 1)

\* quiet_hours_start / quiet_hours_end: both None, or both set
QuietWindows ==
    {<<NoTime, NoTime>>} \cup (TimesOfDay \X TimesOfDay)

PreferenceRows ==
    {[is_enabled |-> e, frequency |-> f,
      quiet_hours_start |-> w[1], quiet_hours_end |-> w[2]] :
        e \in BOOLEAN, f \in Frequencies, w \in QuietWindows}

\* A mutant of the quiet-hours test: the window excludes its end.
InQuietHoursHalfOpen(quiet_start, quiet_end, current_time) ==
    IF quiet_start <= quiet_end
    THEN quiet_start <= current_time /\ current_time < quiet_end
    ELSE current_time >= quiet_start \/ current_time < quiet_end

\* in_quiet_hours of UserPreferenceManager.should_send_notification
InQuietHours(quiet_start, quiet_end, current_time) ==
    IF quiet_start <= quiet_end
    THEN quiet_start <= current_time /\ current_time <= quiet_end
    ELSE current_time >= quiet_start \/ current_time <= quiet_end

\* the rules of should_send_notification that follow the is_enabled test
ShouldSendEnabled(p, priority, current_time) ==
    IF priority = "urgent"
    THEN [send |-> TRUE, reason |-> "urgent_override"]
    ELSE IF /\ p.quiet_hours_start /= NoTime
            /\ p.quiet_hours_end /= NoTime
            /\ InQuietHours(p.quiet_hours_start, p.quiet_hours_end, current_time)
            /\ priority /= "high"
    THEN [send |-> FALSE, reason |-> "quiet_hours"]
    ELSE IF p.frequency = "disabled"
    THEN [send |-> FALSE, reason |-> "frequency_disabled"]
    ELSE IF p.frequency \in {"daily", "weekly"}
    THEN [send |-> TRUE, reason |-> "batched"]
    ELSE [send |-> TRUE, reason |-> "allowed"]

\* A mutant of should_send_notification: the is_enabled test is missing.
ShouldSendSkippingEnabled(p, notification_type, priority, current_time) ==
    IF p = NoPref
    THEN IF notification_type = "marketing"
         THEN [send |-> FALSE, reason |-> "marketing_default"]
         ELSE [send |-> TRUE, reason |-> "default_allows"]
    ELSE ShouldSendEnabled(p, priority, current_time)

\* UserPreferenceManager.should_send_notification: (should_send, reason)
ShouldSendNotification(p, notification_type, priority, current_time) ==
    IF p = NoPref
    THEN IF notification_type = "marketing"
         THEN [send |-> FALSE, reason |-> "marketing_default"]
         ELSE [send |-> TRUE, reason |-> "default_allows"]
    ELSE IF ~p.is_enabled
    THEN [send |-> FALSE, reason |-> "user_disabled"]
    ELSE ShouldSendEnabled(p, priority, current_time)
\* Notification.mark_failed
MarkFailed(n) ==
    [n EXCEPT !.status = "failed", !.retry_count = @ + 1]

\* Notification.mark_sent
MarkSent(n) == [n EXCEPT !.status = "sent"]

\* Notification.can_retry
CanRetry(n) == n.status = "failed" /\ n.retry_count < n.max_retries

RECURSIVE Pow2(_)
Pow2(n) == IF n = 0 THEN 1 ELSE 2 * Pow2(n - 1)

\* retry_delay of send_notification
RetryDelay(retry_count) == Min(300, 60 * Pow2(retry_count))

(***************************************************************************)
(* celery_tasks.py: send_notification                                      *)
(*                                                                         *)
(* A task instance keeps its id across retries (Celery re-sends the same   *)
(* task with request.retries + 1 and an eta).  Each execution runs in its  *)
(* own database session (NotificationTask.__call__): what it commits is    *)
(* written to the row, what is pending when the session is closed is       *)
(* rolled back.  An execution is modelled from commit to commit.           *)
(***************************************************************************)
\* The template of the row, by what render_notification_content makes of it
\* with the row's variables: there is none (template_id is NULL or the
\* template row is gone), it renders, or rendering fails.  The content column
\* holds literal text, the template's source, or the rendered text.
Templates == {"none", "renders", "fails"}

NoRendering == [template |-> "none", content |-> "literal"]

\* the row as send_welcome_notification creates it: content = template.content
NewRendering(template) ==
    [template |-> template,
     content |-> IF template = "none" THEN "literal" ELSE "source"]

\* send_notification, lines 191-207: a successful rendering replaces the
\* content, a failed one is logged and the content stays
Rendered(r) ==
    IF r.template = "renders" THEN [r EXCEPT !.content = "rendered"] ELSE r

MaxTasks == 2
TaskIds == 1 .. MaxTasks

NoTask == [pc |-> "none", retries |-> 0, countdown |-> 0, result |-> "none"]

\* send_notification.delay(notification_id)
NewTask == [pc |-> "waiting", retries |-> 0, countdown |-> 0, result |-> "none"]

GapCap == 360       \* the elapsed-time observation saturates here

Finish(t, result) ==
    tasks' = [tasks EXCEPT ![t] = [@ EXCEPT !.pc = "done", !.result = result]]

\* lines 151-160: load the notification, status = PROCESSING, commit
Pickup(t) ==
    /\ tasks[t].pc = "waiting"
    /\ tasks[t].countdown = 0
    /\ notif' = [notif EXCEPT !.status = "processing"]
    /\ tasks' = [tasks EXCEPT ![t].pc = "loaded"]
    /\ UNCHANGED <<pref, hist, rendering>>

\* lines 162-211: preference check, recipient info, template, status = QUEUED
Prepare(t) ==
    /\ tasks[t].pc = "loaded"
    /\ \E current_time \in TimesOfDay, outcome \in {"ok", "no_recipient", "exception"} :
          LET decision ==
                  ShouldSendNotification(pref, notif.notification_type,
                                         notif.priority, current_time)
          IN  IF ~decision.send
              THEN /\ notif' = [notif EXCEPT !.status = "cancelled",
                                             !.error_message = decision.reason]
                   /\ Finish(t, "blocked")
              ELSE IF outcome = "no_recipient"
              THEN /\ notif' = [MarkFailed(notif) EXCEPT !.error_message = "no_recipient"]
                   /\ Finish(t, "no_recipient")
              ELSE IF outcome = "exception"
              THEN /\ notif' = [MarkFailed(notif) EXCEPT !.error_message = "task_error"]
                   /\ Finish(t, "error")
              ELSE /\ notif' = [notif EXCEPT !.status = "queued"]
                   /\ tasks' = [tasks EXCEPT ![t].pc = "queued"]
    /\ rendering' = IF tasks'[t].pc = "queued" THEN Rendered(rendering) ELSE rendering
    /\ UNCHANGED <<pref, hist>>

\* the observation of one adapter invocation (channel.send)
Dispatched(h, failed) ==
    [h EXCEPT !.dispatches = @ + 1,
              !.failures = IF failed THEN @ + 1 ELSE @,
              !.since_failure = IF failed THEN 0 ELSE @,
              !.gap_after = h.failures,
              !.gap = h.since_failure]

\* lines 213-249: deliver, record the outcome, retry
Deliver(t) ==
    /\ tasks[t].pc = "queued"
    /\ \E outcome \in {"success", "failure", "not_configured", "exception"} :
          CASE outcome = "success" ->
                  /\ notif' = MarkSent(notif)
                  /\ hist' = Dispatched(hist, FALSE)
                  /\ Finish(t, "sent")
            [] outcome = "exception" ->
                  \* raised after the adapter returned: except Exception
                  /\ notif' = [MarkFailed(notif) EXCEPT !.error_message = "task_error"]
                  /\ hist' = Dispatched(hist, FALSE)
                  /\ Finish(t, "error")
            [] outcome \in {"failure", "not_configured"} ->
                  LET failed == [MarkFailed(notif) EXCEPT !.error_message = "delivery"]
                  IN  /\ hist' = IF outcome = "failure"
                                 THEN Dispatched(hist, TRUE)
                                 ELSE hist
                      /\ IF CanRetry(failed)
                         THEN IF tasks[t].retries + 1 > failed.max_retries
                              THEN \* self.retry raises MaxRetriesExceededError
                                   /\ notif' = [MarkFailed(failed) EXCEPT
                                                   !.error_message = "task_error"]
                                   /\ Finish(t, "error")
                              ELSE \* Retry is raised before the commit: rolled back
                                   /\ notif' = notif
                                   /\ tasks' = [tasks EXCEPT ![t] =
                                         [pc |-> "waiting",
                                          retries |-> tasks[t].retries + 1,
                                          countdown |-> RetryDelay(failed.retry_count),
                                          result |-> "none"]]
                         ELSE /\ notif' = failed
                              /\ Finish(t, "failed")
    /\ UNCHANGED <<pref, rendering>>

\* time passes for the broker: etas come closer, the observation grows
TickCelery ==
    /\ \/ \E t \in TaskIds : tasks[t].countdown > 0
       \/ (hist.failures > 0 /\ hist.since_failure < GapCap)
    /\ tasks' = [t \in TaskIds |->
                    [tasks[t] EXCEPT
                        !.countdown = IF @ > TickSeconds THEN @ - TickSeconds ELSE 0]]
    /\ hist' = [hist EXCEPT
                   !.since_failure =
                       IF hist.failures > 0 THEN Min(@ + TickSeconds, GapCap) ELSE @]
    /\ UNCHANGED <<notif, pref, rendering>>

(***************************************************************************)
(* celery_tasks.py: the tasks that enqueue send_notification               *)
(***************************************************************************)
FreeTasks == {t \in TaskIds : tasks[t].pc = "none"}

\* send_notification.delay(str(notification.id)): one more task on the broker
DelaySendNotification ==
    LET t == CHOOSE x \in FreeTasks : \A y \in FreeTasks : x <= y
    IN  tasks' = [tasks EXCEPT ![t] = NewTask]

\* process_scheduled_notifications: every PENDING row with scheduled_at <= now
\* is enqueued; the row is not changed (NULL <= now selects nothing)
ProcessScheduledNotifications ==
    /\ notif.status = "pending"
    /\ scheduled_at /= NoTime
    /\ scheduled_at <= now
    /\ FreeTasks /= {}
    /\ DelaySendNotification
    /\ UNCHANGED <<notif, pref, hist, rendering>>

\* send_batch_notifications(user_id, notification_type, channel) for the
\* user, type and channel of the notification: every PENDING row is taken,
\* whatever its scheduled_at.  The batch row it creates is another
\* notification and is not followed here.
SendBatchNotifications ==
    /\ notif.status = "pending"
    /\ IF pref = NoPref \/ pref.frequency \notin {"daily", "weekly"}
       THEN /\ FreeTasks /= {}
            /\ DelaySendNotification
            /\ UNCHANGED notif
       ELSE /\ notif' = [notif EXCEPT !.status = "sent", !.error_message = "batched"]
            /\ UNCHANGED tasks
    /\ UNCHANGED <<pref, hist, rendering>>

(***************************************************************************)
(* constants.py: the error taxonomy                                        *)
(***************************************************************************)
ErrorType ==
    {"invalid_recipient", "network_error", "service_unavailable", "rate_limited",
     "authentication_failed", "content_rejected", "recipient_blocked",
     "quota_exceeded", "timeout", "invalid_template", "missing_credentials",
     "unknown"}

RETRYABLE_ERRORS ==
    {"network_error", "service_unavailable", "rate_limited", "timeout",
     "quota_exceeded"}

\* constants.is_retryable_error
IsRetryableError(error_type) == error_type \in RETRYABLE_ERRORS

(***************************************************************************)
(* SpecEval: the decision functions applied to inputs                      *)
(***************************************************************************)
NoQuery == [fn |-> "none"]

\* the calls of should_send_notification that are evaluated
ShouldSendQueries ==
    {[fn |-> "should_send", pref |-> p, notification_type |-> ty,
      priority |-> pr, current_time |-> ct] :
        p \in {NoPref} \cup PreferenceRows, ty \in NotificationType,
        pr \in NotificationPriority, ct \in TimesOfDay}

\* the failure kinds put to both retryability tables
RetryableQueries ==
    {[fn |-> "retryable", kind |-> kind] : kind \in ErrorType \cup FailureReason}

\* one call of should_send_notification
EvalShouldSend ==
    /\ query.fn = "should_send"
    /\ answer = NoQuery
    /\ answer' = ShouldSendNotification(query.pref, query.notification_type,
                                        query.priority, query.current_time)
    /\ UNCHANGED <<query, trackerVars, celeryVars, routerVars, fleetVars, queueVars, metricsVars, scheduleVars, peripheryVars>>

\* one failure kind put to constants.is_retryable_error and to _should_retry
EvalRetryable ==
    /\ query.fn = "retryable"
    /\ answer = NoQuery
    /\ answer' = [constants |-> IsRetryableError(query.kind),
                  tracker |-> ShouldRetry(query.kind)]
    /\ UNCHANGED <<query, trackerVars, celeryVars, routerVars, fleetVars, queueVars, metricsVars, scheduleVars, peripheryVars>>

(***************************************************************************)
(* routing_system.py: CircuitBreaker and NotificationRouter.route_request   *)
(*                                                                         *)
(* CircuitBreaker.call holds the breaker's lock from its state test to the  *)
(* end of the wrapped request, so one call is in progress at a time.  The   *)
(* call is modelled in two steps, before and after the HTTP request, which  *)
(* is when HALF_OPEN can be read (get_routing_stats) and time passes.       *)
(***************************************************************************)
RouterTick == 30            \* granularity of the router's clock
MaxRouterTicks == 6         \* the router's clock runs to MaxRouterTicks * RouterTick

DefaultFailureThreshold == 5    \* CircuitBreaker(failure_threshold=5)
DefaultRecoveryTimeout == 60    \* CircuitBreaker(recovery_timeout=60)

\* CircuitBreaker.__init__, as _get_circuit_breaker constructs it
NewCircuitBreaker ==
    [failure_threshold |-> DefaultFailureThreshold,
     recovery_timeout |-> DefaultRecoveryTimeout,
     failure_count |-> 0, last_failure_time |-> NoTime, state |-> "CLOSED"]

\* A mutant of _should_attempt_reset: every call on an open breaker probes.
ShouldAttemptResetAlways(cb, t) == TRUE

\* CircuitBreaker._should_attempt_reset at time t
ShouldAttemptReset(cb, t) ==
    IF cb.last_failure_time = NoTime
    THEN TRUE
    ELSE t - cb.last_failure_time > cb.recovery_timeout

\* A mutant of _on_success: the failure count is kept.
OnSuccessKeepingCount(cb) == [cb EXCEPT !.state = "CLOSED"]

\* CircuitBreaker._on_success
OnSuccess(cb) == [cb EXCEPT !.failure_count = 0, !.state = "CLOSED"]

\* CircuitBreaker._on_failure at time t
OnFailure(cb, t) ==
    LET counted == [cb EXCEPT !.failure_count = @ + 1, !.last_failure_time = t]
    IN  IF counted.failure_count >= counted.failure_threshold
        THEN [counted EXCEPT !.state = "OPEN"]
        ELSE counted

\* status codes the provider answers with
ProviderStatusCodes == {200, 500}

\* no route_request made yet
NoRouter ==
    [pc |-> "idle", last |-> [ok |-> TRUE, status_code |-> 0, error |-> "none"],
     fails |-> 0, http500 |-> 0]

\* route_request: no route rule matches the path and method
RouteRequestNotFound ==
    /\ router.pc = "idle"
    /\ router' = [router EXCEPT !.last = [ok |-> FALSE, status_code |-> 404,
                                           error |-> "Route not found"]]
    /\ UNCHANGED <<breaker, now>>

\* route_request: select_endpoint finds no healthy endpoint
RouteRequestUnavailable ==
    /\ router.pc = "idle"
    /\ router' = [router EXCEPT !.last = [ok |-> FALSE, status_code |-> 503,
                                           error |-> "Service unavailable"]]
    /\ UNCHANGED <<breaker, now>>

\* route_request with circuit_breaker_enabled: CircuitBreaker.call up to the
\* wrapped request; the "Circuit breaker is OPEN" exception is caught by
\* route_request, which answers (False, 500)
CircuitBreakerCall ==
    /\ router.pc = "idle"
    /\ IF breaker.state = "OPEN"
       THEN IF ShouldAttemptReset(breaker, now)
            THEN /\ breaker' = [breaker EXCEPT !.state = "HALF_OPEN"]
                 /\ router' = [router EXCEPT !.pc = "executing"]
            ELSE /\ breaker' = breaker
                 /\ router' = [router EXCEPT
                                  !.last = [ok |-> FALSE, status_code |-> 500,
                                            error |-> "Circuit breaker is OPEN"]]
       ELSE /\ breaker' = breaker
            /\ router' = [router EXCEPT !.pc = "executing"]
    /\ UNCHANGED now

\* _execute_request returns the provider's response, whatever its status code
\* (requests raises nothing on an HTTP error status), and call runs _on_success
ExecuteRequestReturns ==
    /\ router.pc = "executing"
    /\ \E code \in ProviderStatusCodes :
          router' = [pc |-> "idle",
                     last |-> [ok |-> TRUE, status_code |-> code, error |-> "none"],
                     fails |-> 0,
                     http500 |-> IF code = 500
                                 THEN Min(router.http500 + 1, breaker.failure_threshold)
                                 ELSE 0]
    /\ breaker' = OnSuccess(breaker)
    /\ UNCHANGED now

\* _execute_request raises (requests.exceptions.RequestException: no
\* connection, timeout), call runs _on_failure, route_request answers (False, 500)
ExecuteRequestRaises ==
    /\ router.pc = "executing"
    /\ router' = [pc |-> "idle",
                  last |-> [ok |-> FALSE, status_code |-> 500, error |-> "request"],
                  fails |-> router.fails + 1,
                  http500 |-> 0]
    /\ breaker' = OnFailure(breaker, now)
    /\ UNCHANGED now

\* route_request on a rule with circuit_breaker_enabled = False
RouteRequestUnprotected ==
    /\ router.pc = "idle"
    /\ \/ \E code \in ProviderStatusCodes :
             router' = [router EXCEPT !.last = [ok |-> TRUE, status_code |-> code,
                                               error |-> "none"]]
       \/ router' = [router EXCEPT !.last = [ok |-> FALSE, status_code |-> 500,
                                               error |-> "request"]]
    /\ UNCHANGED <<breaker, now>>

\* time passes
TickRouter ==
    /\ now < MaxRouterTicks * RouterTick
    /\ now' = now + RouterTick
    /\ UNCHANGED <<breaker, router>>

(***************************************************************************)
(* celery_tasks.py, constants.py: many send_notification tasks of one       *)
(* channel.  Every task runs the same code on its own row, so the tasks are *)
(* counted: how many wait in the broker and how many calls of the channel   *)
(* adapter the workers made during the current second.                      *)
(***************************************************************************)
MaxFleet == 21              \* notifications admitted to the channel

RATE_LIMITS ==
    [email |-> 100, sms |-> 50, push |-> 1000, in_app |-> 2000, webhook |-> 200]

BURST_LIMITS ==
    [email |-> 20, sms |-> 10, push |-> 100, in_app |-> 200, webhook |-> 50]

FleetChannels == {"email", "sms"}

NoFleet == [channel |-> "email", admitted |-> 0, waiting |-> 0, dispatched |-> 0]

\* send_notification.delay(notification_id), as process_scheduled_notifications
\* and send_batch_notifications call it for each notification
DelayTask ==
    /\ fleet.admitted < MaxFleet
    /\ fleet' = [fleet EXCEPT !.admitted = @ + 1, !.waiting = @ + 1]

\* a worker runs send_notification for a notification the preferences allow:
\* the row is committed Queued and deliver_notification calls the adapter
RunTask ==
    /\ fleet.waiting > 0
    /\ fleet' = [fleet EXCEPT !.waiting = @ - 1, !.dispatched = @ + 1]

\* the next second begins
TickFleet ==
    /\ fleet.dispatched > 0
    /\ fleet' = [fleet EXCEPT !.dispatched = 0]

(***************************************************************************)
(* app.py: the admission endpoint and the queue worker                      *)
(*                                                                         *)
(* A request body is modelled by the kind of each value: user_id is absent, *)
(* "" or a name; channel is absent or a word; content is absent, "",        *)
(* whitespace, text, or not a string.  A queue entry also carries the       *)
(* position of its admission (serial), which the code does not store.       *)
(***************************************************************************)
MaxAdmitted == 3            \* requests the endpoint queues

Absent == "absent"          \* the key is not in the request body
NoBody == [body |-> FALSE]  \* request.get_json() returns None

UserIds == {"u1", "u2"}
ContentKinds == {"empty", "blank", "text", "number"}
QueuePriorities == {"low", "urgent"}

GoodBodies ==
    {[body |-> TRUE, user_id |-> u, channel |-> "email", content |-> "text",
      priority |-> pr] : u \in UserIds, pr \in QueuePriorities}

BadBodies ==
    {[body |-> TRUE, user_id |-> u, channel |-> "sms", content |-> "text",
      priority |-> "low"] : u \in {Absent, ""}}
    \cup
    {[body |-> TRUE, user_id |-> "u1", channel |-> c, content |-> "text",
      priority |-> "low"] : c \in {Absent, "fax", "in_app"}}
    \cup
    {[body |-> TRUE, user_id |-> "u1", channel |-> "push", content |-> k,
      priority |-> "low"] : k \in {Absent, "empty", "blank", "number"}}

RequestBodies == GoodBodies \cup BadBodies \cup {NoBody}

\* `not data or not all(key in data for key in [...])`
MissingRequiredFields(data) ==
    \/ ~data.body
    \/ data.user_id = Absent
    \/ data.channel = Absent
    \/ data.content = Absent

\* A mutant of validate: whitespace content is not stripped before the test.
ValidateWithoutStrip(n) ==
    IF n.user_id = "" THEN "User ID is required"
    ELSE IF n.channel \notin {"email", "sms", "push"} THEN "Invalid channel"
    ELSE IF n.content = "empty" THEN "Content cannot be empty"
    ELSE IF n.content = "number" THEN "AttributeError"
    ELSE "valid"

\* Notification.validate: "valid", the error message, or the AttributeError
\* that content.strip() raises on a value that is not a string
Validate(n) ==
    IF n.user_id = "" THEN "User ID is required"
    ELSE IF n.channel \notin {"email", "sms", "push"} THEN "Invalid channel"
    ELSE IF n.content = "empty" THEN "Content cannot be empty"
    ELSE IF n.content = "number" THEN "AttributeError"
    ELSE IF n.content = "blank" THEN "Content cannot be empty"
    ELSE "valid"

\* Notification.to_dict, with the position of the admission
ToDict(data, t, serial) ==
    [user_id |-> data.user_id, channel |-> data.channel, content |-> data.content,
     notification_type |-> "generic", timestamp |-> t, serial |-> serial]

NoHttpCall == [request |-> NoBody, status |-> 0, notification_id |-> <<>>]

Response(data, status) == [request |-> data, status |-> status, notification_id |-> <<>>]

NoQHist == [enq |-> <<>>, deq |-> <<>>, overtook |-> FALSE]

\* A mutant of the enqueue: LPUSH instead of RPUSH.
Lpush(list, item) == <<item>> \o list

\* redis_client.rpush
Rpush(list, item) == Append(list, item)

\* send_notification_request (POST /api/notifications/send)
SendNotificationRequest ==
    \E data \in RequestBodies :
       /\ IF MissingRequiredFields(data)
          THEN /\ httpcall' = Response(data, 400)
               /\ UNCHANGED <<queue, qhist>>
          ELSE LET verdict == Validate(data) IN
               IF verdict = "AttributeError"
               THEN /\ httpcall' = Response(data, 500)
                    /\ UNCHANGED <<queue, qhist>>
               ELSE IF verdict /= "valid"
               THEN /\ httpcall' = Response(data, 400)
                    /\ UNCHANGED <<queue, qhist>>
               ELSE IF redis = "none"
               THEN /\ httpcall' = Response(data, 503)
                    /\ UNCHANGED <<queue, qhist>>
               ELSE \/ /\ Len(qhist.enq) < MaxAdmitted
                       /\ queue' = Rpush(queue, ToDict(data, now, Len(qhist.enq) + 1))
                       /\ qhist' = [qhist EXCEPT !.enq = Append(@, data.priority)]
                       /\ httpcall' = [request |-> data, status |-> 202,
                                       notification_id |-> <<data.user_id, now>>]
                    \/ /\ httpcall' = Response(data, 500)    \* rpush raises
                       /\ UNCHANGED <<queue, qhist>>
       /\ UNCHANGED <<redis, now>>

\* constants.py: the order of the priority levels (PRIORITY_DELAYS)
PriorityRank(priority) ==
    CASE priority = "low" -> 1
      [] priority = "normal" -> 2
      [] priority = "high" -> 3
      [] priority = "urgent" -> 4

\* redis_client.blpop: the head of the list
Blpop(list) == [item |-> Head(list), rest |-> Tail(list)]

\* one turn of the loop of process_notification_queue that finds an item
ProcessNotificationQueue ==
    /\ redis = "up"
    /\ queue /= <<>>
    /\ LET popped == Blpop(queue)
           waiting == {popped.rest[i].serial : i \in 1 .. Len(popped.rest)}
       IN  /\ queue' = popped.rest
           /\ qhist' = [qhist EXCEPT
                 !.deq = Append(@, popped.item.serial),
                 !.overtook = @ \/ \E w \in waiting :
                     PriorityRank(qhist.enq[w]) > PriorityRank(qhist.enq[popped.item.serial])]
    /\ UNCHANGED <<redis, httpcall, now>>

(***************************************************************************)
(* analytics.py: MetricsCollector, one counter metric.  Time is counted in  *)
(* minutes; a minute m lies in hour m \div MinutesPerHour.                  *)
(***************************************************************************)
MinutesPerHour == 2         \* minutes in an hour of the model
HoursPerDay == 2            \* hours in a day of the model
MaxMinutes == 4             \* the collector's clock runs to this minute
MaxPoints == 3              \* counter increments made

MetricMinutes == 0 .. MaxMinutes
MetricHours == 0 .. (MaxMinutes \div MinutesPerHour)
MetricDays == 0 .. (MaxMinutes \div (MinutesPerHour * HoursPerDay))

\* strftime('%Y%m%d%H') and strftime('%Y%m%d') of a timestamp
HourOf(minute) == minute \div MinutesPerHour
DayOf(minute) == minute \div (MinutesPerHour * HoursPerDay)

\* an empty buffer and no keys in Redis (a missing member counts 0); points
\* counts the points put into the buffer, flushed those written to Redis,
\* alive says that the process and its daemon flush thread run
NoMetrics ==
    [clock |-> 0, points |-> 0, buffer |-> <<>>, flushed |-> 0, alive |-> TRUE,
     minute |-> [m \in MetricMinutes |-> 0],
     hour |-> [h \in MetricHours |-> 0],
     day |-> [d \in MetricDays |-> 0]]

\* _store_metric_in_redis for a COUNTER: ZADD sets the minute member to the
\* value, ZINCRBY adds the value to the hour and the day member
StoreCounter(store, point) ==
    [store EXCEPT
        !.minute[point.timestamp] = point.value,
        !.hour[HourOf(point.timestamp)] = @ + point.value,
        !.day[DayOf(point.timestamp)] = @ + point.value]

RECURSIVE StoreAll(_, _)
\* the loop of _flush_metrics over the copied buffer
StoreAll(store, points) ==
    IF points = <<>> THEN store
    ELSE StoreAll(StoreCounter(store, Head(points)), Tail(points))

\* increment_counter(metric_name, value): a point is put into the buffer
IncrementCounter ==
    /\ metrics.points < MaxPoints
    /\ \E value \in {1, 2} :
          metrics' = [metrics EXCEPT
              !.points = @ + 1,
              !.buffer = Append(@, [timestamp |-> metrics.clock, value |-> value])]

\* _flush_metrics: the buffer is copied and cleared, every point is stored
FlushMetrics ==
    /\ metrics.buffer /= <<>>
    /\ metrics' = [StoreAll(metrics, metrics.buffer) EXCEPT
                       !.buffer = <<>>,
                       !.flushed = @ + Len(metrics.buffer)]

\* _flush_metrics while Redis does not answer: the buffer is copied and
\* cleared, pipe.execute raises for every point, the except clause of
\* _store_metric_in_redis logs the error
FlushMetricsRedisError ==
    /\ metrics.buffer /= <<>>
    /\ metrics' = [metrics EXCEPT !.buffer = <<>>]

\* the process exits: the flush thread is a daemon thread and nothing
\* flushes the buffer on the way out
ExitProcess ==
    /\ metrics.alive
    /\ metrics' = [metrics EXCEPT !.alive = FALSE]

\* a minute passes
TickMetrics ==
    /\ metrics.clock < MaxMinutes
    /\ metrics' = [metrics EXCEPT !.clock = @ + 1]

(***************************************************************************)
(* template_system.py: UserPreferenceManager on the table                  *)
(* user_notification_preferences (models.py), for one key                  *)
(* (user_id, notification_type, channel) = (u, message, email).  The table *)
(* has no unique constraint (models.py, __table_args__), so it is a list   *)
(* of rows; .first() is taken to return the oldest row and .all() to       *)
(* return the rows in insertion order.                                     *)
(***************************************************************************)
MaxPrefRows == 2        \* rows of the key in the table

\* the columns a keyword argument can set, and the name the docstring of
\* set_user_preference and the result of get_user_preferences use for is_enabled
PrefColumns == {"is_enabled", "frequency"}
PrefKwargs ==
    {[name |-> n, flag |-> b, text |-> "none"] :
        n \in {"is_enabled", "enabled"}, b \in BOOLEAN}
    \cup {[name |-> "frequency", flag |-> FALSE, text |-> f] :
              f \in {"immediate", "daily"}}

\* the row with the column of a keyword argument set to its value
WithColumn(row, kw) ==
    IF kw.name = "is_enabled" THEN [row EXCEPT !.is_enabled = kw.flag]
    ELSE [row EXCEPT !.frequency = kw.text]

PrefCall(op, ok, kw) ==
    [op |-> op, ok |-> ok, name |-> kw.name, flag |-> kw.flag, text |-> kw.text]

NoKwargs == [name |-> "none", flag |-> FALSE, text |-> "none"]

\* the column a keyword argument is about
SettingOf(name) == IF name = "enabled" THEN "is_enabled" ELSE name

\* column defaults of UserNotificationPreference
DefaultPrefRow == [is_enabled |-> TRUE, frequency |-> "immediate"]

MaxSessions == 2        \* database sessions calling set_user_preference
Sessions == 1 .. MaxSessions

\* a session outside set_user_preference
NoSession == [pc |-> "idle", found |-> FALSE, kw |-> NoKwargs]

NoPreferences ==
    [rows |-> <<>>, sessions |-> [s \in Sessions |-> NoSession],
     call |-> PrefCall("none", TRUE, NoKwargs)]

\* initialize_user_preferences(user_id): one row per default, added without
\* looking for an existing one
InitializeUserPreferences ==
    /\ Len(preferences.rows) < MaxPrefRows
    /\ preferences' =
          [preferences EXCEPT
              !.rows = Append(@, DefaultPrefRow),
              !.call = PrefCall("initialize", TRUE, NoKwargs)]

\* set_user_preference(user_id, notification_type, channel, **{name: value}),
\* lines 278-282: the query for the existing row
SetUserPreferenceQuery(s) ==
    /\ preferences.sessions[s].pc = "idle"
    /\ \E kw \in PrefKwargs :
          preferences' =
             [preferences EXCEPT
                 !.sessions[s] = [pc |-> "queried",
                                  found |-> preferences.rows /= <<>>,
                                  kw |-> kw]]

\* set_user_preference, lines 284-305: setattr on the row found (only if
\* hasattr) or a new row, and the commit; the constructor raises TypeError
\* for a keyword that is no column: rollback, return False
SetUserPreferenceCommit(s) ==
    LET kw == preferences.sessions[s].kw
    IN  /\ preferences.sessions[s].pc = "queried"
        /\ IF preferences.sessions[s].found
           THEN preferences' =
                   [preferences EXCEPT
                       !.rows = IF kw.name \in PrefColumns
                                THEN [@ EXCEPT ![1] = WithColumn(@, kw)]
                                ELSE @,
                       !.sessions[s] = NoSession,
                       !.call = PrefCall("set", TRUE, kw)]
           ELSE IF kw.name \in PrefColumns
           THEN /\ Len(preferences.rows) < MaxPrefRows
                /\ preferences' =
                      [preferences EXCEPT
                          !.rows = Append(@, WithColumn(DefaultPrefRow, kw)),
                          !.sessions[s] = NoSession,
                          !.call = PrefCall("set", TRUE, kw)]
           ELSE preferences' =
                   [preferences EXCEPT
                       !.sessions[s] = NoSession,
                       !.call = PrefCall("set", FALSE, kw)]

\* get_user_preferences(user_id)[type][channel]: later rows overwrite earlier
GetUserPreferences == preferences.rows[Len(preferences.rows)]

\* the row should_send_notification evaluates: first()
FirstPreference == preferences.rows[1]

(***************************************************************************)
(* template_system.py: TemplateManager on the table notification_templates *)
(* (models.py), for one (notification_type, channel).  name is unique;     *)
(* nothing else is, and no code clears is_active.                          *)
(***************************************************************************)
MaxTemplates == 3       \* template names in use
TemplateNames == 1 .. MaxTemplates
TemplateContents == {"valid", "invalid"}    \* outcome of validate_template
TemplateSubjects == {"none", "subject"}

NoTemplates ==
    [rows |-> <<>>, call |-> [op |-> "none", ok |-> TRUE, name |-> 0]]

\* the names in the table
StoredNames == {templates.rows[i].name : i \in 1 .. Len(templates.rows)}

\* create_template(name, notification_type, channel, content, subject)
CreateTemplate ==
    \E name \in TemplateNames, content \in TemplateContents,
       subject \in TemplateSubjects :
        IF content = "invalid"
        THEN \* "Template validation failed"
             templates' =
                [templates EXCEPT !.call = [op |-> "create", ok |-> FALSE, name |-> name]]
        ELSE IF name \in StoredNames
        THEN \* the commit violates unique(name): rollback
             templates' =
                [templates EXCEPT !.call = [op |-> "create", ok |-> FALSE, name |-> name]]
        ELSE templates' =
                [rows |-> Append(templates.rows,
                                 [name |-> name, subject |-> subject,
                                  is_active |-> TRUE]),
                 call |-> [op |-> "create", ok |-> TRUE, name |-> name]]

\* the rows get_active_template and get_template choose from with first()
ActiveTemplates ==
    {i \in 1 .. Len(templates.rows) : templates.rows[i].is_active}

(***************************************************************************)
(* The in-app adapters on the Redis list user_notifications:<user_id> of   *)
(* one user: InAppNotificationChannel (delivery_channels.py) and the two   *)
(* InAppChannel classes (notifications.py, notifications_clean.py).        *)
(* A payload is the number of the send that wrote it.                      *)
(***************************************************************************)
InAppListCap == 100     \* ltrim(redis_key, 0, 99)
MaxInAppSends == 101    \* in-app sends to the user

\* by is the module of the adapter that made the last send
NoInbox == [list |-> <<>>, sent |-> 0, by |-> "none"]

\* redis LTRIM key 0 stop
Ltrim(list, stop) == SubSeq(list, 1, Min(Len(list), stop + 1))

\* delivery_channels.InAppNotificationChannel.send with a redis_client in
\* its config: LPUSH and EXPIRE
InAppNotificationChannelSend ==
    /\ inbox.sent < MaxInAppSends
    /\ inbox' = [list |-> <<inbox.sent + 1>> \o inbox.list,
                 sent |-> inbox.sent + 1, by |-> "delivery_channels"]

\* notifications.InAppChannel.send: LPUSH, LTRIM 0 99, EXPIRE
InAppChannelSend ==
    /\ inbox.sent < MaxInAppSends
    /\ inbox' = [list |-> Ltrim(<<inbox.sent + 1>> \o inbox.list, InAppListCap - 1),
                 sent |-> inbox.sent + 1, by |-> "notifications"]

\* notifications_clean.InAppChannel.send: LPUSH, LTRIM 0 99, EXPIRE
InAppChannelCleanSend ==
    /\ inbox.sent < MaxInAppSends
    /\ inbox' = [list |-> Ltrim(<<inbox.sent + 1>> \o inbox.list, InAppListCap - 1),
                 sent |-> inbox.sent + 1, by |-> "notifications_clean"]

(***************************************************************************)
(* routing_system.py: NotificationRouter._get_circuit_breaker, called by   *)
(* route_request from several request threads for one service name.  The   *)
(* membership test, the store of a new CircuitBreaker and the final lookup *)
(* are separate steps: no lock is held across them.                        *)
(***************************************************************************)
MaxRouteThreads == 2
MaxRouteCalls == 3

RouteThreads == 1 .. MaxRouteThreads

\* circuit_breakers is empty after ServiceRegistry.__init__; instances holds
\* every CircuitBreaker constructed so far, stored is the index of the one
\* the dictionary holds for the service name (0: no entry)
NoRegistry ==
    [instances |-> <<>>, stored |-> 0, calls |-> 0,
     pc |-> [t \in RouteThreads |-> "idle"],
     held |-> [t \in RouteThreads |-> 0]]

\* route_request reaches _get_circuit_breaker:
\* `if service_name not in self.service_registry.circuit_breakers`
GetCircuitBreakerTest(t) ==
    /\ registry.pc[t] = "idle"
    /\ registry.calls < MaxRouteCalls
    /\ registry' = [registry EXCEPT
           !.calls = @ + 1,
           !.pc[t] = IF registry.stored = 0 THEN "missing" ELSE "present"]

\* `circuit_breakers[service_name] = CircuitBreaker()`
GetCircuitBreakerStore(t) ==
    /\ registry.pc[t] = "missing"
    /\ registry' = [registry EXCEPT
           !.instances = Append(@, NewCircuitBreaker),
           !.stored = Len(registry.instances) + 1,
           !.pc[t] = "present"]

\* `return self.service_registry.circuit_breakers[service_name]`
GetCircuitBreakerReturn(t) ==
    /\ registry.pc[t] = "present"
    /\ registry' = [registry EXCEPT
           !.held[t] = registry.stored,
           !.pc[t] = "call"]

\* CircuitBreaker.call on the instance the thread was given, under that
\* instance's own lock: refused while OPEN and not due for a probe, else the
\* wrapped request runs and ends in _on_success or _on_failure
RegistryBreakerCall(t, ok) ==
    /\ registry.pc[t] = "call"
    /\ LET i == registry.held[t]
           b == registry.instances[i]
           refused == b.state = "OPEN" /\ ~ShouldAttemptReset(b, now)
           probing == IF b.state = "OPEN" THEN [b EXCEPT !.state = "HALF_OPEN"]
                      ELSE b
           after == IF refused THEN b
                    ELSE IF ok THEN OnSuccess(probing)
                    ELSE OnFailure(probing, now)
       IN  registry' = [registry EXCEPT
               !.instances[i] = after,
               !.pc[t] = "idle"]

(***************************************************************************)
(* celery_tasks.py: send_batch_notifications for one (user, type, channel) *)
(* whose preference row has frequency daily or weekly.  Each run is a      *)
(* worker task with its own session; the query, the commit of the batch    *)
(* row and the commit of the marks are separate database steps.            *)
(***************************************************************************)
MaxOriginals == 2

Originals == 1 .. MaxOriginals

\* two runs of the task for the same user, type and channel
BatchRuns == {"first", "second"}

\* the original rows are PENDING (the column default); rows holds the batch
\* rows created so far, the n-th of them having the id MaxOriginals + n;
\* marks counts how often a run set an original row to SENT
NoBatch ==
    [status |-> [i \in Originals |-> "pending"],
     marks |-> [i \in Originals |-> 0],
     rows |-> <<>>,
     pc |-> [k \in BatchRuns |-> "idle"],
     selected |-> [k \in BatchRuns |-> {}],
     created |-> [k \in BatchRuns |-> 0]]

\* ids of the rows with status PENDING for the user, type and channel: the
\* batch rows have the same user, type and channel as the originals
PendingRows ==
    {i \in Originals : batch.status[i] = "pending"}
    \cup {MaxOriginals + n : n \in {m \in 1 .. Len(batch.rows) :
                                       batch.rows[m].status = "pending"}}

\* the query for the PENDING rows; nothing to do when there is none
BatchQuery(k) ==
    /\ batch.pc[k] = "idle"
    /\ batch' = [batch EXCEPT
           !.selected[k] = PendingRows,
           !.pc[k] = IF PendingRows = {} THEN "done" ELSE "selected"]

\* create_batch_content over the selected rows, add the batch row, commit
BatchCreate(k) ==
    /\ batch.pc[k] = "selected"
    /\ batch' = [batch EXCEPT
           !.rows = Append(@, [content |-> batch.selected[k],
                               status |-> "pending"]),
           !.created[k] = Len(batch.rows) + 1,
           !.pc[k] = "created"]

\* send_notification.delay for the batch row, then every selected row is
\* set to SENT and committed (an UPDATE by primary key)
BatchMark(k) ==
    /\ batch.pc[k] = "created"
    /\ batch' = [batch EXCEPT
           !.status = [i \in Originals |->
                          IF i \in batch.selected[k] THEN "sent" ELSE @[i]],
           !.marks = [i \in Originals |->
                          IF i \in batch.selected[k] THEN @[i] + 1 ELSE @[i]],
           !.rows = [n \in 1 .. Len(@) |->
                          IF MaxOriginals + n \in batch.selected[k]
                          THEN [@[n] EXCEPT !.status = "sent"] ELSE @[n]],
           !.pc[k] = "done"]

\* the run ends after the commit of the batch row and before the marks:
\* send_notification.delay raises (broker unreachable) or the worker dies
BatchFail(k) ==
    /\ batch.pc[k] = "created"
    /\ batch' = [batch EXCEPT !.pc[k] = "failed"]

\* the send_notification task of a batch row delivers it
BatchRowSent(n) ==
    /\ n \in 1 .. Len(batch.rows)
    /\ batch.rows[n].status = "pending"
    /\ batch' = [batch EXCEPT !.rows[n].status = "sent"]

\* the batch rows whose content includes the row i
BatchesOf(i) == {n \in 1 .. Len(batch.rows) : i \in batch.rows[n].content}

(***************************************************************************)
(* notifications.py: NotificationService.send_notification                 *)
(***************************************************************************)
MaxChannels == 2

\* keys of notification_channels
RegisteredChannels == {"email", "sms", "push", "in_app", "webhook"}

\* channel names a request carries; "fax" is not registered
RequestChannels == {"email", "in_app", "fax"}

RequestChannelLists ==
    UNION {[1 .. n -> RequestChannels] : n \in 0 .. MaxChannels}

ServicePriorities == {"normal", "urgent"}

\* `channels = [ch for ch in channels if user_preferences.is_channel_enabled(ch)]`
RECURSIVE FilterEnabled(_, _)
FilterEnabled(chs, enabled) ==
    IF chs = <<>> THEN <<>>
    ELSE IF Head(chs) \in enabled
         THEN <<Head(chs)>> \o FilterEnabled(Tail(chs), enabled)
         ELSE FilterEnabled(Tail(chs), enabled)

\* the locals of send_notification before the loop; success is a local that
\* only the urgent branch assigns
LoopStart ==
    [queued |-> <<>>, sent |-> <<>>, results |-> {}, success |-> "unbound",
     raised |-> FALSE]

\* `for channel_name in channels:` from position i on.  A registered channel
\* is sent (urgent) or queued with send_notification_async.delay, its result
\* is stored, and track_notification_sent(..., success) reads the local
\* success, which raises UnboundLocalError while it is unassigned.
RECURSIVE SendThroughChannels(_, _, _, _, _)
SendThroughChannels(chs, i, priority, ok, acc) ==
    IF i > Len(chs) \/ acc.raised THEN acc
    ELSE IF chs[i] \notin RegisteredChannels
         THEN SendThroughChannels(chs, i + 1, priority, ok, acc)
         ELSE LET handled ==
                      IF priority = "urgent"
                      THEN [acc EXCEPT !.sent = Append(@, chs[i]),
                                       !.results = @ \cup {chs[i]},
                                       !.success = IF ok THEN "true" ELSE "false"]
                      ELSE [acc EXCEPT !.queued = Append(@, chs[i]),
                                       !.results = @ \cup {chs[i]}]
                  tracked == [handled EXCEPT !.raised = handled.success = "unbound"]
              IN  SendThroughChannels(chs, i + 1, priority, ok, tracked)

\* the answer of send_notification
ServiceResponse(success, results, message) ==
    [success |-> success, results |-> results, message |-> message]

NoService ==
    [called |-> FALSE,
     request |-> [channels |-> <<>>, priority |-> "normal", has_prefs |-> FALSE,
                  enabled |-> {}, template |-> FALSE],
     queued |-> <<>>, sent |-> <<>>,
     response |-> ServiceResponse(FALSE, {}, "none")]

\* send_notification(notification_request): has_prefs and enabled are what
\* UserPreference.get_by_user_id returns, template whether the template
\* exists, ok the outcome of an immediate channel send
ServiceSendNotification(chs, priority, has_prefs, enabled, template, ok) ==
    LET channels == IF has_prefs THEN FilterEnabled(chs, enabled) ELSE chs
        loop == SendThroughChannels(channels, 1, priority, ok, LoopStart)
        response ==
            IF channels = <<>>
            THEN ServiceResponse(FALSE, {}, "No enabled channels for user")
            ELSE IF ~template
            THEN ServiceResponse(FALSE, {}, "Template not found")
            ELSE IF loop.raised
            THEN ServiceResponse(FALSE, {}, "UnboundLocalError")
            ELSE ServiceResponse(TRUE, loop.results, "none")
        reached == channels /= <<>> /\ template
    IN  /\ has_prefs \/ enabled = {}
        /\ service' = [called |-> TRUE,
                       request |-> [channels |-> chs, priority |-> priority,
                                    has_prefs |-> has_prefs, enabled |-> enabled,
                                    template |-> template],
                       queued |-> IF reached THEN loop.queued ELSE <<>>,
                       sent |-> IF reached THEN loop.sent ELSE <<>>,
                       response |-> response]

\* the requested channels the user has enabled and that are registered
ExpectedChannels ==
    {service.request.channels[i] : i \in 1 .. Len(service.request.channels)}
    \cap RegisteredChannels
    \cap (IF service.request.has_prefs THEN service.request.enabled
          ELSE RegisteredChannels)

\* number of tasks queued for the channel ch
QueuedFor(ch) ==
    Cardinality({i \in 1 .. Len(service.queued) : service.queued[i] = ch})

(***************************************************************************)
(* security_middleware.py: the lock-out of one client IP                   *)
(***************************************************************************)
FAILED_LOGIN_THRESHOLD == 5
LOCKOUT_DURATION == 300     \* seconds

LockTickSeconds == 150
MaxLockTicks == 3
MaxFailedAttempts == 7

\* what _authenticate_request answers for the request
AuthOutcomes == {"authenticated", "token_required", "invalid_token"}

\* SecurityMiddleware.__init__: failed_attempts is a defaultdict(int) and
\* locked_ips is empty.  clock is datetime.utcnow(); last and last_time are
\* the status and the time of the latest answer; fresh counts the
\* invalid-token requests since the latest locking and lock_run is the
\* number of them that led to the latest locking (0: never locked).
NoLockout ==
    [failed_attempts |-> 0, locked |-> FALSE, lock_time |-> 0, clock |-> 0,
     last |-> 0, last_time |-> 0, fresh |-> 0, lock_run |-> 0]

\* _is_ip_locked: the answer, and the state after an expired lock is removed
IsIpLocked(l) == l.locked /\ l.clock - l.lock_time < LOCKOUT_DURATION

AfterIsIpLocked(l) ==
    IF l.locked /\ ~IsIpLocked(l) THEN [l EXCEPT !.locked = FALSE] ELSE l

\* _record_failed_attempt
RecordFailedAttempt(l) ==
    LET counted == [l EXCEPT !.failed_attempts = @ + 1, !.fresh = @ + 1]
    IN  IF counted.failed_attempts >= FAILED_LOGIN_THRESHOLD
        THEN [counted EXCEPT !.locked = TRUE, !.lock_time = l.clock,
                             !.lock_run = counted.fresh, !.fresh = 0]
        ELSE counted

\* before_request for a request that passes the rate limit and the input
\* validation: 403 while the IP is locked, else the authentication outcome
\* (0 stands for a request that is let through to its handler)
BeforeRequest(outcome) ==
    /\ outcome = "invalid_token" => lockout.failed_attempts < MaxFailedAttempts
    /\ LET checked == AfterIsIpLocked(lockout)
           answered(l, code) == [l EXCEPT !.last = code, !.last_time = l.clock]
       IN  lockout' =
               IF IsIpLocked(lockout) THEN answered(lockout, 403)
               ELSE IF outcome = "invalid_token"
                    THEN answered(RecordFailedAttempt(checked), 401)
               ELSE IF outcome = "token_required" THEN answered(checked, 401)
               ELSE answered(checked, 0)

\* time passes
LockoutTick ==
    /\ lockout.clock < MaxLockTicks * LockTickSeconds
    /\ lockout' = [lockout EXCEPT !.clock = @ + LockTickSeconds]

(***************************************************************************)
(* Specifications                                                          *)
(***************************************************************************)
NoCall == [op |-> "none", ok |-> TRUE]

NoHist ==
    [dispatches |-> 0, failures |-> 0, since_failure |-> 0,
     gap_after |-> 0, gap |-> 0]

\* Notification(...) as the admission path stores it
NewNotification(max_retries, priority, notification_type) ==
    [status |-> "pending", retry_count |-> 0, max_retries |-> max_retries,
     priority |-> priority, notification_type |-> notification_type,
     error_message |-> "none"]

TrackerIdle ==
    /\ now = 0
    /\ record = NewRecord(DefaultMaxRetries)
    /\ lastCall = NoCall

CeleryIdle ==
    /\ notif = NewNotification(DefaultMaxRetries, "normal", "message")
    /\ pref = NoPref
    /\ tasks = [t \in TaskIds |-> NoTask]
    /\ hist = NoHist
    /\ rendering = NoRendering

EvalIdle ==
    /\ query = NoQuery
    /\ answer = NoQuery

RouterIdle ==
    /\ breaker = NewCircuitBreaker
    /\ router = NoRouter

FleetIdle == fleet = NoFleet

MetricsIdle == metrics = NoMetrics

ScheduleIdle == scheduled_at = NoTime

QueueIdle ==
    /\ redis = "up"
    /\ queue = <<>>
    /\ httpcall = NoHttpCall
    /\ qhist = NoQHist

CoreIdle ==
    /\ TrackerIdle /\ CeleryIdle /\ EvalIdle /\ RouterIdle /\ FleetIdle /\ QueueIdle
    /\ MetricsIdle /\ ScheduleIdle

PreferencesIdle == preferences = NoPreferences

TemplatesIdle == templates = NoTemplates

InboxIdle == inbox = NoInbox

RegistryIdle == registry = NoRegistry

BatchIdle == batch = NoBatch

ServiceIdle == service = NoService

LockoutIdle == lockout = NoLockout

PeripheryIdle ==
    /\ PreferencesIdle
    /\ TemplatesIdle
    /\ InboxIdle
    /\ RegistryIdle
    /\ BatchIdle
    /\ ServiceIdle
    /\ LockoutIdle

InitTracker ==
    /\ now = 0
    /\ \E m \in {0, 1, DefaultMaxRetries, MaxMaxRetries} : record = NewRecord(m)
    /\ lastCall = NoCall
    /\ CeleryIdle
    /\ EvalIdle
    /\ RouterIdle /\ FleetIdle /\ QueueIdle /\ MetricsIdle /\ ScheduleIdle /\ PeripheryIdle

NextTracker ==
    \/ (UpdateDeliveryStatus /\ UNCHANGED <<celeryVars, evalVars, routerVars, fleetVars, queueVars, metricsVars, scheduleVars, peripheryVars>>)
    \/ (MarkForRetry /\ UNCHANGED <<celeryVars, evalVars, routerVars, fleetVars, queueVars, metricsVars, scheduleVars, peripheryVars>>)
    \/ (CancelDelivery /\ UNCHANGED <<celeryVars, evalVars, routerVars, fleetVars, queueVars, metricsVars, scheduleVars, peripheryVars>>)
    \/ (Tick /\ UNCHANGED <<celeryVars, evalVars, routerVars, fleetVars, queueVars, metricsVars, scheduleVars, peripheryVars>>)

SpecTracker == InitTracker /\ [][NextTracker]_vars

\* a record created at time 0 with the default budget, and a clock that can
\* pass the maximum retry age
InitTrackerAged ==
    /\ now = 0
    /\ record = NewRecord(DefaultMaxRetries)
    /\ lastCall = NoCall
    /\ CeleryIdle
    /\ EvalIdle
    /\ RouterIdle /\ FleetIdle /\ QueueIdle /\ MetricsIdle /\ ScheduleIdle /\ PeripheryIdle

NextTrackerAged ==
    \/ NextTracker
    \/ (TickMaxRetryAge /\ UNCHANGED <<celeryVars, evalVars, routerVars, fleetVars, queueVars, metricsVars, scheduleVars, peripheryVars>>)

SpecTrackerAged == InitTrackerAged /\ [][NextTrackerAged]_vars

\* the tracker with a record that takes several attempts
InitAttempts ==
    /\ now = 0
    /\ \E m \in {1, DefaultMaxRetries} : record = NewRecord(m)
    /\ lastCall = NoCall
    /\ CeleryIdle
    /\ EvalIdle
    /\ RouterIdle /\ FleetIdle /\ QueueIdle /\ MetricsIdle /\ ScheduleIdle /\ PeripheryIdle

TickAttempts ==
    Tick /\ UNCHANGED <<celeryVars, evalVars, routerVars, fleetVars, queueVars, metricsVars, scheduleVars, peripheryVars>>

NextAttempts ==
    \/ (UpdateDeliveryStatusLogged /\ UNCHANGED <<celeryVars, evalVars, routerVars, fleetVars, queueVars, metricsVars, scheduleVars, peripheryVars>>)
    \/ (MarkForRetry /\ UNCHANGED <<celeryVars, evalVars, routerVars, fleetVars, queueVars, metricsVars, scheduleVars, peripheryVars>>)
    \/ (CancelDelivery /\ UNCHANGED <<celeryVars, evalVars, routerVars, fleetVars, queueVars, metricsVars, scheduleVars, peripheryVars>>)
    \/ TickAttempts

SpecAttempts == InitAttempts /\ [][NextAttempts]_vars

\* time passes whatever the callers of the tracker do; the tracker's own
\* threads (webhook_worker, cleanup_worker) call none of its operations
FairAttempts == InitAttempts /\ [][NextAttempts]_vars /\ WF_vars(TickAttempts)

CeleryMaxRetries == 3       \* largest max_retries of the notification
CeleryTypes == {"message", "marketing"}
CeleryQuietWindows == {<<NoTime, NoTime>>, <<0, 1>>, <<DayLen - 1, 0>>}
CeleryPrefs ==
    {NoPref} \cup
    {p \in PreferenceRows :
        <<p.quiet_hours_start, p.quiet_hours_end>> \in CeleryQuietWindows}

InitCelery ==
    /\ \E m \in 0 .. CeleryMaxRetries, pr \in NotificationPriority, ty \in CeleryTypes :
          notif = NewNotification(m, pr, ty)
    /\ pref \in CeleryPrefs
    /\ tasks = [t \in TaskIds |-> IF t = 1 THEN NewTask ELSE NoTask]
    /\ hist = NoHist
    /\ rendering = NoRendering
    /\ TrackerIdle
    /\ EvalIdle
    /\ RouterIdle /\ FleetIdle /\ QueueIdle /\ MetricsIdle /\ ScheduleIdle /\ PeripheryIdle

NextCelery ==
    \/ \E t \in TaskIds : Pickup(t) /\ UNCHANGED <<trackerVars, evalVars, routerVars, fleetVars, queueVars, metricsVars, scheduleVars, peripheryVars>>
    \/ \E t \in TaskIds : Prepare(t) /\ UNCHANGED <<trackerVars, evalVars, routerVars, fleetVars, queueVars, metricsVars, scheduleVars, peripheryVars>>
    \/ \E t \in TaskIds : Deliver(t) /\ UNCHANGED <<trackerVars, evalVars, routerVars, fleetVars, queueVars, metricsVars, scheduleVars, peripheryVars>>
    \/ (TickCelery /\ UNCHANGED <<trackerVars, evalVars, routerVars, fleetVars, queueVars, metricsVars, scheduleVars, peripheryVars>>)

SpecCelery == InitCelery /\ [][NextCelery]_vars

\* The broker hands every due task to a worker, and a worker runs it to the end.
CeleryFairness ==
    /\ \A t \in TaskIds :
          /\ WF_vars(Pickup(t) /\ UNCHANGED <<trackerVars, evalVars, routerVars, fleetVars, queueVars, metricsVars, scheduleVars, peripheryVars>>)
          /\ WF_vars(Prepare(t) /\ UNCHANGED <<trackerVars, evalVars, routerVars, fleetVars, queueVars, metricsVars, scheduleVars, peripheryVars>>)
          /\ WF_vars(Deliver(t) /\ UNCHANGED <<trackerVars, evalVars, routerVars, fleetVars, queueVars, metricsVars, scheduleVars, peripheryVars>>)
    /\ WF_vars(TickCelery /\ UNCHANGED <<trackerVars, evalVars, routerVars, fleetVars, queueVars, metricsVars, scheduleVars, peripheryVars>>)

InitFairCelery ==
    /\ \E m \in 0 .. CeleryMaxRetries, pr \in {"normal", "urgent"} :
          notif = NewNotification(m, pr, "message")
    /\ pref \in {NoPref,
                 [is_enabled |-> FALSE, frequency |-> "immediate",
                  quiet_hours_start |-> NoTime, quiet_hours_end |-> NoTime]}
    /\ tasks = [t \in TaskIds |-> IF t = 1 THEN NewTask ELSE NoTask]
    /\ hist = NoHist
    /\ rendering = NoRendering
    /\ TrackerIdle
    /\ EvalIdle
    /\ RouterIdle /\ FleetIdle /\ QueueIdle /\ MetricsIdle /\ ScheduleIdle /\ PeripheryIdle

FairCelery == InitFairCelery /\ [][NextCelery]_vars /\ CeleryFairness

InitEval ==
    /\ query \in ShouldSendQueries \cup RetryableQueries
    /\ answer = NoQuery
    /\ TrackerIdle
    /\ CeleryIdle
    /\ RouterIdle /\ FleetIdle /\ QueueIdle /\ MetricsIdle /\ ScheduleIdle /\ PeripheryIdle

NextEval == EvalShouldSend \/ EvalRetryable

SpecEval == InitEval /\ [][NextEval]_vars

InitRouter ==
    /\ now = 0
    /\ record = NewRecord(DefaultMaxRetries)
    /\ lastCall = NoCall
    /\ RouterIdle
    /\ CeleryIdle /\ EvalIdle /\ FleetIdle /\ QueueIdle /\ MetricsIdle /\ ScheduleIdle /\ PeripheryIdle

NextRouter ==
    \/ (RouteRequestNotFound /\ UNCHANGED <<record, lastCall, celeryVars, evalVars, fleetVars, queueVars, metricsVars, scheduleVars, peripheryVars>>)
    \/ (RouteRequestUnavailable /\ UNCHANGED <<record, lastCall, celeryVars, evalVars, fleetVars, queueVars, metricsVars, scheduleVars, peripheryVars>>)
    \/ (CircuitBreakerCall /\ UNCHANGED <<record, lastCall, celeryVars, evalVars, fleetVars, queueVars, metricsVars, scheduleVars, peripheryVars>>)
    \/ (ExecuteRequestReturns /\ UNCHANGED <<record, lastCall, celeryVars, evalVars, fleetVars, queueVars, metricsVars, scheduleVars, peripheryVars>>)
    \/ (ExecuteRequestRaises /\ UNCHANGED <<record, lastCall, celeryVars, evalVars, fleetVars, queueVars, metricsVars, scheduleVars, peripheryVars>>)
    \/ (RouteRequestUnprotected /\ UNCHANGED <<record, lastCall, celeryVars, evalVars, fleetVars, queueVars, metricsVars, scheduleVars, peripheryVars>>)
    \/ (TickRouter /\ UNCHANGED <<record, lastCall, celeryVars, evalVars, fleetVars, queueVars, metricsVars, scheduleVars, peripheryVars>>)

SpecRouter == InitRouter /\ [][NextRouter]_vars

RECURSIVE AfterFailures(_, _, _)
\* the breaker after n consecutive failed calls at time t
AfterFailures(cb, n, t) ==
    IF n = 0 THEN cb ELSE AfterFailures(OnFailure(cb, t), n - 1, t)

\* the worker next to a breaker that is Closed, or that failure_threshold
\* failed requests have opened
InitWorkerBreaker ==
    /\ \E m \in 0 .. CeleryMaxRetries, pr \in {"normal", "urgent"} :
          notif = NewNotification(m, pr, "message")
    /\ pref \in {NoPref,
                 [is_enabled |-> FALSE, frequency |-> "immediate",
                  quiet_hours_start |-> NoTime, quiet_hours_end |-> NoTime]}
    /\ tasks = [t \in TaskIds |-> IF t = 1 THEN NewTask ELSE NoTask]
    /\ hist = NoHist
    /\ rendering = NoRendering
    /\ breaker \in {NewCircuitBreaker,
                    AfterFailures(NewCircuitBreaker, DefaultFailureThreshold, 0)}
    /\ router = NoRouter
    /\ TrackerIdle
    /\ EvalIdle /\ FleetIdle /\ QueueIdle /\ MetricsIdle /\ ScheduleIdle /\ PeripheryIdle

SpecWorkerBreaker == InitWorkerBreaker /\ [][NextCelery]_vars

InitFleet ==
    /\ \E ch \in FleetChannels : fleet = [NoFleet EXCEPT !.channel = ch]
    /\ TrackerIdle /\ CeleryIdle /\ EvalIdle /\ RouterIdle /\ QueueIdle /\ MetricsIdle /\ ScheduleIdle /\ PeripheryIdle

NextFleet ==
    \/ (DelayTask /\ UNCHANGED <<trackerVars, celeryVars, evalVars, routerVars, queueVars, metricsVars, scheduleVars, peripheryVars>>)
    \/ (RunTask /\ UNCHANGED <<trackerVars, celeryVars, evalVars, routerVars, queueVars, metricsVars, scheduleVars, peripheryVars>>)
    \/ (TickFleet /\ UNCHANGED <<trackerVars, celeryVars, evalVars, routerVars, queueVars, metricsVars, scheduleVars, peripheryVars>>)

SpecFleet == InitFleet /\ [][NextFleet]_vars

InitQueue ==
    /\ redis \in {"up", "none"}
    /\ queue = <<>>
    /\ httpcall = NoHttpCall
    /\ qhist = NoQHist
    /\ TrackerIdle /\ CeleryIdle /\ EvalIdle /\ RouterIdle /\ FleetIdle /\ MetricsIdle /\ ScheduleIdle /\ PeripheryIdle

NextQueue ==
    \/ (SendNotificationRequest /\ UNCHANGED <<record, lastCall, celeryVars, evalVars, routerVars, fleetVars, metricsVars, scheduleVars, peripheryVars>>)
    \/ (ProcessNotificationQueue /\ UNCHANGED <<record, lastCall, celeryVars, evalVars, routerVars, fleetVars, metricsVars, scheduleVars, peripheryVars>>)
    \/ (Tick /\ UNCHANGED <<celeryVars, evalVars, routerVars, fleetVars, queueVars, metricsVars, scheduleVars, peripheryVars>>)

SpecQueue == InitQueue /\ [][NextQueue]_vars

InitMetrics ==
    /\ metrics = NoMetrics
    /\ scheduled_at = NoTime
    /\ PeripheryIdle
    /\ TrackerIdle /\ CeleryIdle /\ EvalIdle /\ RouterIdle /\ FleetIdle /\ QueueIdle

NextMetrics ==
    \/ (IncrementCounter /\ UNCHANGED <<trackerVars, celeryVars, evalVars, routerVars, fleetVars, queueVars, scheduleVars, peripheryVars>>)
    \/ (FlushMetrics /\ UNCHANGED <<trackerVars, celeryVars, evalVars, routerVars, fleetVars, queueVars, scheduleVars, peripheryVars>>)
    \/ (TickMetrics /\ UNCHANGED <<trackerVars, celeryVars, evalVars, routerVars, fleetVars, queueVars, scheduleVars, peripheryVars>>)

SpecMetrics == InitMetrics /\ [][NextMetrics]_vars

ScheduleTimes == {NoTime} \cup {k * TickSeconds : k \in 0 .. MaxTicks}
SchedulePrefs ==
    {NoPref} \cup
    {[is_enabled |-> TRUE, frequency |-> f,
      quiet_hours_start |-> NoTime, quiet_hours_end |-> NoTime] :
        f \in {"immediate", "daily"}}

\* a PENDING row; one without scheduled_at was enqueued by its creator
InitScheduled ==
    /\ scheduled_at \in ScheduleTimes
    /\ \E m \in {0, 1} : notif = NewNotification(m, "normal", "message")
    /\ pref \in SchedulePrefs
    /\ tasks = [t \in TaskIds |->
                   IF t = 1 /\ scheduled_at = NoTime THEN NewTask ELSE NoTask]
    /\ hist = NoHist
    /\ rendering = NoRendering
    /\ TrackerIdle
    /\ EvalIdle
    /\ RouterIdle /\ FleetIdle /\ QueueIdle /\ MetricsIdle /\ PeripheryIdle

NextScheduled ==
    \/ NextCelery
    \/ (ProcessScheduledNotifications /\ UNCHANGED <<trackerVars, evalVars, routerVars, fleetVars, queueVars, metricsVars, scheduleVars, peripheryVars>>)
    \/ (SendBatchNotifications /\ UNCHANGED <<trackerVars, evalVars, routerVars, fleetVars, queueVars, metricsVars, scheduleVars, peripheryVars>>)
    \/ (Tick /\ UNCHANGED <<celeryVars, evalVars, routerVars, fleetVars, queueVars, metricsVars, scheduleVars, peripheryVars>>)

SpecScheduled == InitScheduled /\ [][NextScheduled]_vars

\* a notification created from a template (or with literal content) and
\* enqueued, as send_welcome_notification does
InitRender ==
    /\ \E template \in Templates : rendering = NewRendering(template)
    /\ \E m \in {0, 1, DefaultMaxRetries} : notif = NewNotification(m, "normal", "message")
    /\ pref = NoPref
    /\ tasks = [t \in TaskIds |-> IF t = 1 THEN NewTask ELSE NoTask]
    /\ hist = NoHist
    /\ TrackerIdle
    /\ EvalIdle
    /\ RouterIdle /\ FleetIdle /\ QueueIdle /\ MetricsIdle /\ ScheduleIdle /\ PeripheryIdle

SpecRender == InitRender /\ [][NextCelery]_vars

PreferencesFrame == UNCHANGED <<coreVars, templates, inbox, registry, batch, service, lockout>>

InitPreferences ==
    /\ preferences = NoPreferences
    /\ CoreIdle /\ TemplatesIdle /\ InboxIdle /\ RegistryIdle /\ BatchIdle /\ ServiceIdle /\ LockoutIdle

NextPreferences ==
    \/ (InitializeUserPreferences /\ PreferencesFrame)
    \/ \E s \in Sessions : SetUserPreferenceQuery(s) /\ PreferencesFrame
    \/ \E s \in Sessions : SetUserPreferenceCommit(s) /\ PreferencesFrame

SpecPreferences == InitPreferences /\ [][NextPreferences]_vars

TemplatesFrame == UNCHANGED <<coreVars, preferences, inbox, registry, batch, service, lockout>>

InitTemplates ==
    /\ templates = NoTemplates
    /\ CoreIdle /\ PreferencesIdle /\ InboxIdle /\ RegistryIdle /\ BatchIdle /\ ServiceIdle /\ LockoutIdle

NextTemplates == CreateTemplate /\ TemplatesFrame

SpecTemplates == InitTemplates /\ [][NextTemplates]_vars

InboxFrame == UNCHANGED <<coreVars, preferences, templates, registry, batch, service, lockout>>

InitInbox ==
    /\ inbox = NoInbox
    /\ CoreIdle /\ PreferencesIdle /\ TemplatesIdle /\ RegistryIdle /\ BatchIdle /\ ServiceIdle /\ LockoutIdle

NextInbox ==
    \/ (InAppNotificationChannelSend /\ InboxFrame)
    \/ (InAppChannelSend /\ InboxFrame)
    \/ (InAppChannelCleanSend /\ InboxFrame)

SpecInbox == InitInbox /\ [][NextInbox]_vars

MetricsFrame == UNCHANGED <<trackerVars, celeryVars, evalVars, routerVars, fleetVars, queueVars, scheduleVars, peripheryVars>>

\* the collector from its construction to the exit of the process
NextMetricsLifetime ==
    \/ (metrics.alive /\ IncrementCounter /\ MetricsFrame)
    \/ (metrics.alive /\ FlushMetrics /\ MetricsFrame)
    \/ (metrics.alive /\ FlushMetricsRedisError /\ MetricsFrame)
    \/ (metrics.alive /\ TickMetrics /\ MetricsFrame)
    \/ (ExitProcess /\ MetricsFrame)

SpecMetricsLifetime == InitMetrics /\ [][NextMetricsLifetime]_vars

RegistryFrame == UNCHANGED <<coreVars, preferences, templates, inbox, batch, service, lockout>>

InitRegistry ==
    /\ registry = NoRegistry
    /\ CoreIdle /\ PreferencesIdle /\ TemplatesIdle /\ InboxIdle /\ BatchIdle /\ ServiceIdle /\ LockoutIdle

NextRegistry ==
    \/ (\E t \in RouteThreads : GetCircuitBreakerTest(t) /\ RegistryFrame)
    \/ (\E t \in RouteThreads : GetCircuitBreakerStore(t) /\ RegistryFrame)
    \/ (\E t \in RouteThreads : GetCircuitBreakerReturn(t) /\ RegistryFrame)
    \/ (\E t \in RouteThreads, ok \in BOOLEAN :
            RegistryBreakerCall(t, ok) /\ RegistryFrame)

SpecRegistry == InitRegistry /\ [][NextRegistry]_vars

BatchFrame == UNCHANGED <<coreVars, preferences, templates, inbox, registry, service, lockout>>

InitBatch ==
    /\ batch = NoBatch
    /\ CoreIdle /\ PreferencesIdle /\ TemplatesIdle /\ InboxIdle /\ RegistryIdle /\ ServiceIdle /\ LockoutIdle

NextBatch ==
    \/ (\E k \in BatchRuns : BatchQuery(k) /\ BatchFrame)
    \/ (\E k \in BatchRuns : BatchCreate(k) /\ BatchFrame)
    \/ (\E k \in BatchRuns : BatchMark(k) /\ BatchFrame)
    \/ (\E k \in BatchRuns : BatchFail(k) /\ BatchFrame)
    \/ (\E n \in 1 .. Cardinality(BatchRuns) : BatchRowSent(n) /\ BatchFrame)

SpecBatch == InitBatch /\ [][NextBatch]_vars

ServiceFrame == UNCHANGED <<coreVars, preferences, templates, inbox, registry, batch, lockout>>

InitService ==
    /\ service = NoService
    /\ CoreIdle /\ PreferencesIdle /\ TemplatesIdle /\ InboxIdle /\ RegistryIdle /\ BatchIdle /\ LockoutIdle

NextService ==
    \E chs \in RequestChannelLists, priority \in ServicePriorities,
       has_prefs \in BOOLEAN, template \in BOOLEAN :
        \E enabled \in (IF has_prefs THEN SUBSET RequestChannels ELSE {{}}),
           ok \in (IF priority = "urgent" THEN BOOLEAN ELSE {TRUE}) :
            ServiceSendNotification(chs, priority, has_prefs, enabled, template, ok)
            /\ ServiceFrame

SpecService == InitService /\ [][NextService]_vars

LockoutFrame == UNCHANGED <<coreVars, preferences, templates, inbox, registry, batch, service>>

InitLockout ==
    /\ lockout = NoLockout
    /\ CoreIdle /\ PreferencesIdle /\ TemplatesIdle /\ InboxIdle /\ RegistryIdle /\ BatchIdle /\ ServiceIdle

NextLockout ==
    \/ (\E outcome \in AuthOutcomes : BeforeRequest(outcome) /\ LockoutFrame)
    \/ (LockoutTick /\ LockoutFrame)

SpecLockout == InitLockout /\ [][NextLockout]_vars

(***************************************************************************)
(* Properties                                                              *)
(***************************************************************************)
\* the backoff schedule as the specification states it:
\* backoff(n) = [60, 300, 900, 1800, 3600][min(n - 1, 4)]
Backoff(n) ==
    CASE n <= 1 -> 60
      [] n = 2 -> 300
      [] n = 3 -> 900
      [] n = 4 -> 1800
      [] OTHER -> 3600

\* the retryable kinds of the failure taxonomy
TaxonomyRetryable ==
    {"network_error", "service_unavailable", "rate_limited", "timeout",
     "quota_exceeded", "unknown"}

\* the kinds of the failure taxonomy that are not retried
TaxonomyFinal ==
    {"authentication_failed", "recipient_blocked", "invalid_recipient",
     "content_rejected", "invalid_template"}

\* C1: after any sequence of update_delivery_status, mark_for_retry and
\* cancel_delivery calls, the record's retry_count is at most its max_retries.
C1_RetryCountWithinBudget == record.retry_count <= record.max_retries

\* C1 witness: the budget is used up, and a further mark_for_retry was refused.
C1_Witness ==
    /\ record.max_retries >= 1
    /\ record.retry_count = record.max_retries
    /\ lastCall = [op |-> "mark", ok |-> FALSE]

\* C2 (as claimed): the notification's retry_count never exceeds its max_retries
\* while send_notification processes it, also when max_retries = 0.
C2_NotificationRetryCountBounded == notif.retry_count <= notif.max_retries

\* C3 (as claimed): every notification handed to the worker eventually reaches a
\* terminal status (Delivered, Failed, Cancelled; the model has no Expired).
C3_EventuallyTerminal == <>(notif.status \in {"delivered", "failed", "cancelled"})

\* no execution of send_notification is between its commits
Quiescent == \A t \in TaskIds : tasks[t].pc \notin {"loaded", "queued"}

\* C4: with a preference record that has is_enabled = false and a priority that
\* is not Urgent, the adapter is never invoked, every execution ends blocked by
\* the preferences, and the notification is left Cancelled with the reason that
\* the user disabled it.
C4_DisabledIsCancelledWithoutDispatch ==
    (pref /= NoPref /\ ~pref.is_enabled /\ notif.priority /= "urgent") =>
        /\ hist.dispatches = 0
        /\ \A t \in TaskIds :
              /\ tasks[t].pc /= "queued"
              /\ tasks[t].pc = "done" => tasks[t].result = "blocked"
        /\ (Quiescent /\ \E t \in TaskIds : tasks[t].pc = "done") =>
              /\ notif.status = "cancelled"
              /\ notif.error_message = "user_disabled"

\* C4 witness: a non-urgent notification of a user who disabled it was processed.
C4_Witness ==
    /\ pref /= NoPref
    /\ ~pref.is_enabled
    /\ notif.priority = "high"
    /\ tasks[1].pc = "done"
    /\ tasks[1].result = "blocked"
    /\ notif.status = "cancelled"

\* C5 (as claimed): for priority Urgent the preference evaluator answers send,
\* whatever the preference state is.
C5_UrgentAlwaysSent ==
    (query.fn = "should_send" /\ answer /= NoQuery /\ query.priority = "urgent")
        => answer.send

\* the evaluations that reach the quiet-hours rule with quiet hours set
QuietRuleApplies ==
    /\ query.fn = "should_send"
    /\ answer /= NoQuery
    /\ query.pref /= NoPref
    /\ query.pref.is_enabled
    /\ query.pref.quiet_hours_start /= NoTime
    /\ query.pref.quiet_hours_end /= NoTime

\* t lies in [start, end], both ends included, wrapping around midnight
InClosedWindow(start, end, t) ==
    IF start <= end THEN start <= t /\ t <= end ELSE t >= start \/ t <= end

\* t lies in [start, end), wrapping around midnight
InHalfOpenWindow(start, end, t) ==
    IF start <= end THEN start <= t /\ t < end ELSE t >= start \/ t < end

\* C6 (amended): the quiet-hours rule blocks exactly when the priority is below
\* High and the time lies in the closed window [quiet-start, quiet-end]; at
\* t = quiet-end the notification is still blocked.
C6_QuietHoursClosedWindow ==
    QuietRuleApplies =>
        ((answer.reason = "quiet_hours") <=>
            /\ query.priority \in {"low", "normal"}
            /\ InClosedWindow(query.pref.quiet_hours_start,
                              query.pref.quiet_hours_end, query.current_time))

\* C6 witness: a Low notification evaluated exactly at quiet-end was blocked.
C6_Witness ==
    /\ QuietRuleApplies
    /\ query.priority = "low"
    /\ query.pref.quiet_hours_start /= query.pref.quiet_hours_end
    /\ query.current_time = query.pref.quiet_hours_end
    /\ answer.reason = "quiet_hours"
    /\ ~answer.send

\* C6 (as claimed): the rule blocks exactly when the priority is below High and
\* the time lies in the half-open window [quiet-start, quiet-end).
C6_QuietHoursHalfOpenWindow ==
    QuietRuleApplies =>
        ((answer.reason = "quiet_hours") <=>
            /\ query.priority \in {"low", "normal"}
            /\ InHalfOpenWindow(query.pref.quiet_hours_start,
                                query.pref.quiet_hours_end, query.current_time))

\* C7 (as claimed): a notification whose preference frequency is Daily or Weekly
\* is never dispatched individually to the channel adapter.
C7_BatchedNeverDispatched ==
    (pref /= NoPref /\ pref.frequency \in {"daily", "weekly"}) =>
        hist.dispatches = 0

\* the attempt appended by the step, if the step is an update_delivery_status
AppendedAttempt == record'.attempts[Len(record'.attempts)]

\* C8: when update_delivery_status records a failed attempt, a retry is scheduled
\* iff the classified kind is retryable and retry_count < max_retries; then
\* retry_count grows by 1, the status is Queued and next_retry_at is
\* now + backoff(new retry_count); otherwise the status is the failure recorded
\* and retry_count and next_retry_at are unchanged.
C8_RetryScheduledIffRetryableWithinBudget ==
    [][(/\ Len(record'.attempts) = Len(record.attempts) + 1
        /\ AppendedAttempt.status \in FailedStatuses)
       => IF /\ record'.failure_reason \in TaxonomyRetryable
             /\ record.retry_count < record.max_retries
          THEN /\ record'.retry_count = record.retry_count + 1
               /\ record'.status = "queued"
               /\ record'.next_retry_at = now + Backoff(record'.retry_count)
          ELSE /\ record'.status = AppendedAttempt.status
               /\ record'.retry_count = record.retry_count
               /\ record'.next_retry_at = record.next_retry_at]_vars

\* C8 witness: a failed attempt was re-queued as the sixth retry, one hour ahead.
C8_Witness ==
    /\ lastCall.op = "update"
    /\ record.status = "queued"
    /\ record.retry_count = 6
    /\ record.next_retry_at = now + 3600
    /\ record.attempts /= <<>>
    /\ record.attempts[Len(record.attempts)].status = "failed"

\* C9 (as claimed): constants.is_retryable_error and DeliveryTracker._should_retry
\* both follow the failure taxonomy for every kind they know.
C9_RetryabilityFollowsTaxonomy ==
    (query.fn = "retryable" /\ answer /= NoQuery
        /\ query.kind \in TaxonomyRetryable \cup TaxonomyFinal) =>
        /\ query.kind \in ErrorType =>
              (answer.constants <=> query.kind \in TaxonomyRetryable)
        /\ query.kind \in FailureReason =>
              (answer.tracker <=> query.kind \in TaxonomyRetryable)

\* C10 (as claimed): the delivery attempt that follows the k-th failed attempt of
\* a notification starts at least backoff(k) after that failure (60 s after the
\* first, 300 s after the second).
C10_RetryWaitsForBackoff ==
    (hist.gap_after >= 1 /\ hist.gap < GapCap) =>
        hist.gap >= Backoff(hist.gap_after)

\* the route_request step made a wrapped request that raised
CallFailed == router'.fails = router.fails + 1

\* the route_request step made a wrapped request that returned
CallSucceeded == router.pc = "executing" /\ router'.pc = "idle" /\ router'.fails = 0

\* what the breaker's counters say in every state
BreakerCounts ==
    /\ breaker.failure_count = router.fails
    /\ breaker.state = "OPEN" => breaker.failure_count >= breaker.failure_threshold
    /\ breaker.state = "CLOSED" => breaker.failure_count < breaker.failure_threshold

\* the state changes one step of the breaker may make
BreakerStep ==
    /\ breaker.state = "CLOSED" =>
          /\ breaker'.state \in {"CLOSED", "OPEN"}
          /\ breaker'.state = "OPEN" <=>
                (CallFailed /\ router'.fails = breaker.failure_threshold)
    /\ breaker.state = "OPEN" =>
          /\ breaker'.state \in {"OPEN", "HALF_OPEN"}
          /\ breaker'.failure_count = breaker.failure_count
          /\ breaker'.state = "HALF_OPEN" =>
                now - breaker.last_failure_time > breaker.recovery_timeout
    /\ breaker.state = "HALF_OPEN" =>
          /\ CallSucceeded => breaker'.state = "CLOSED"
          /\ CallFailed => breaker'.state = "OPEN"
          /\ ~CallSucceeded /\ ~CallFailed => breaker'.state = "HALF_OPEN"
    /\ CallSucceeded => breaker'.failure_count = 0

\* C11: the circuit breaker goes Closed -> Open exactly when the
\* failure_threshold-th consecutive call fails (a success resets the count to
\* 0), Open -> HalfOpen only after recovery_timeout, HalfOpen -> Closed on one
\* success and HalfOpen -> Open on one failure; Open implies failure_count >=
\* threshold and Closed implies failure_count < threshold.
C11_BreakerTransitions == []BreakerCounts /\ [][BreakerStep]_vars

\* a second probe: the breaker opened, a first probe failed and reopened it,
\* and after another recovery_timeout the breaker is HalfOpen again
C11_Witness ==
    /\ breaker.state = "HALF_OPEN"
    /\ breaker.failure_count > breaker.failure_threshold
    /\ router.pc = "executing"

HealthCheckInterval == 30   \* the only sweep of routing_system.py (health checks)

\* C12: an Open breaker becomes HalfOpen no later than recovery_timeout plus
\* one sweep interval after its last recorded failure (and no earlier than
\* recovery_timeout, which is part of BreakerStep), so it is never seen Open
\* later than that.
C12_OpenLeavesWithinSweep ==
    breaker.state = "OPEN" =>
        now - breaker.last_failure_time
            <= breaker.recovery_timeout + HealthCheckInterval

\* C13: when the provider has answered HTTP 500 to five consecutive requests
\* routed through the breaker, the breaker is Open.
C13_FiveHttp500OpenBreaker ==
    router.http500 >= breaker.failure_threshold => breaker.state = "OPEN"

\* C14: every dispatch passes through the provider's circuit breaker: while
\* the breaker is Open the worker makes no call of the channel adapter.
C14_OpenBreakerBlocksDispatch == breaker.state = "OPEN" => hist.dispatches = 0

\* C15: dispatch on a channel is gated by its token bucket: no more than the
\* channel's burst (Email 20) of the notifications admitted within one second
\* are dispatched within that second.
C15_BurstGatesDispatch == fleet.dispatched <= BURST_LIMITS[fleet.channel]

\* the terminal states of the notification state machine, as statuses of a record
TrackerTerminal == {"delivered", "failed", "bounced", "rejected", "cancelled", "expired"}

\* C16: a status change of update_delivery_status, mark_for_retry or
\* cancel_delivery never moves a record in a terminal state (Delivered,
\* Failed-Final, Cancelled, Expired) back to Queued, Sending or Sent.
C16_TerminalStaysTerminal ==
    [][record.status \in TrackerTerminal =>
          record'.status \notin {"queued", "sending", "sent"}]_vars

\* C17: cancel_delivery succeeds only for a record that is Pending or Queued;
\* for any other record it returns False and leaves the record unchanged.
C17_CancelOnlyBeforeSent ==
    [][CancelDelivery =>
          /\ lastCall'.ok => record.status \in {"pending", "queued"}
          /\ record.status \notin {"pending", "queued"} =>
                ~lastCall'.ok /\ record' = record]_vars

\* C18: the worker dequeues the notifications of notification_queue in the
\* order in which admission enqueued them: the k-th dequeue takes the k-th
\* admission, and what waits is the rest in admission order.
C18_DequeueOrderIsEnqueueOrder ==
    /\ \A k \in 1 .. Len(qhist.deq) : qhist.deq[k] = k
    /\ \A i \in 1 .. Len(queue) : queue[i].serial = Len(qhist.deq) + i
    /\ Len(qhist.deq) + Len(queue) = Len(qhist.enq)

\* two were dequeued while a third waits, admitted between the two dequeues or before
C18_Witness ==
    /\ Len(qhist.deq) = 2
    /\ Len(queue) = 1
    /\ queue[1].user_id /= "u1"

\* C19: the worker never takes a notification while one of higher priority waits.
C19_HighestPriorityFirst == ~qhist.overtook

\* a request body the claim calls invalid
ClaimInvalid(data) ==
    \/ MissingRequiredFields(data)
    \/ data.user_id = ""
    \/ data.channel \notin {"email", "sms", "push"}
    \/ data.content \in {"empty", "blank"}

\* a request body that is valid: a user, a recognised channel, text content
ClaimValid(data) ==
    /\ ~MissingRequiredFields(data)
    /\ data.user_id \in UserIds
    /\ data.channel \in {"email", "sms", "push"}
    /\ data.content = "text"

\* the step queued exactly one entry, for this request, and answered 202 with an id
Accepted(data) ==
    /\ httpcall'.status = 202
    /\ httpcall'.notification_id = <<data.user_id, now>>
    /\ Len(queue') = Len(queue) + 1
    /\ SubSeq(queue', 1, Len(queue)) = queue
    /\ queue'[Len(queue')].user_id = data.user_id

\* the step answered 400 and left the queue alone
Rejected == httpcall'.status = 400 /\ queue' = queue

RECURSIVE SumOver(_, _)
\* the sum of f over the finite set S of its domain
SumOver(f, S) ==
    IF S = {} THEN 0
    ELSE LET x == CHOOSE y \in S : TRUE IN f[x] + SumOver(f, S \ {x})

\* C21: metric counters are additive across granularities: the minute buckets
\* of an hour sum to the hour's bucket and the hour buckets of a day sum to
\* the day's bucket.
C21_CountersAdditive ==
    /\ \A h \in MetricHours :
          SumOver(metrics.minute, {m \in MetricMinutes : HourOf(m) = h}) = metrics.hour[h]
    /\ \A d \in MetricDays :
          SumOver(metrics.hour, {h \in MetricHours : h \div HoursPerDay = d}) = metrics.day[d]

\* C22: no retry is scheduled for a delivery record once 24 hours have passed
\* since its creation (the record is created at time 0).
C22_NoRetryAfterMaxAge ==
    [][now >= MAX_RETRY_AGE * 3600 =>
          /\ record'.retry_count = record.retry_count
          /\ record'.next_retry_at = record.next_retry_at]_vars

\* C23: at most one send_notification execution hands a given notification
\* to the channel adapter: apart from the retries that follow a failed
\* delivery, the adapter is invoked at most once.
C23_AtMostOneDispatch == hist.dispatches - hist.failures <= 1

\* C24: the scheduled sweep enqueues a due notification at most once before
\* a worker has processed it: no sweep adds a task while one that no worker
\* has picked up is still on the broker.
C24_SweepEnqueuesOnce ==
    [][ProcessScheduledNotifications => ~(\E t \in TaskIds : tasks[t] = NewTask)]_vars

\* C25: a notification whose scheduled_at lies in the future stays Pending,
\* has no task on the broker and has not been dispatched.
C25_FutureStaysPending ==
    (scheduled_at /= NoTime /\ now < scheduled_at) =>
        /\ notif.status = "pending"
        /\ \A t \in TaskIds : tasks[t].pc = "none"
        /\ hist.dispatches = 0

\* the recovery timeout of the open breaker has not elapsed
RecoveryPending ==
    /\ breaker.state = "OPEN"
    /\ breaker.last_failure_time /= NoTime
    /\ now - breaker.last_failure_time < breaker.recovery_timeout

\* C26: while the breaker is Open and recovery_timeout has not elapsed, a call
\* is refused without running the wrapped request, and the refusal leaves
\* state, failure_count and last_failure_time as they were.
C26_OpenRefusesUnchanged ==
    [][(RecoveryPending /\ CircuitBreakerCall)
          => /\ router'.pc = "idle"
             /\ ~router'.last.ok
             /\ router'.last.error = "Circuit breaker is OPEN"
             /\ breaker'.state = breaker.state
             /\ breaker'.failure_count = breaker.failure_count
             /\ breaker'.last_failure_time = breaker.last_failure_time]_vars

\* a call has been refused by the open breaker before the timeout elapsed
C26_Witness ==
    /\ RecoveryPending
    /\ router.pc = "idle"
    /\ router.last.error = "Circuit breaker is OPEN"
    /\ breaker.failure_count = breaker.failure_threshold

\* C27: a record that was re-queued for retry is eventually picked up again
\* once its next_retry_at has passed: it does not stay Queued for ever.
C27_RequeuedEventuallyPickedUp == InRetryQueue ~> (record.status /= "queued")

\* C28: when the template of a notification fails to render, the worker does
\* not hand the notification, with the unrendered template as content, to the
\* channel adapter.
C28_RenderFailureNotDispatched ==
    (rendering.template = "fails" /\ rendering.content = "source") =>
        hist.dispatches = 0

LastAttempt == record.attempts[Len(record.attempts)]

\* C29 (as claimed): the status of a record with an attempt is the status of
\* its last attempt, or Queued when the record was re-queued for retry.
C29_StatusIsLastAttemptOrQueued ==
    Len(record.attempts) > 0 =>
        record.status \in {LastAttempt.status, "queued"}

\* C29: the status of a record with an attempt is the status of its last
\* attempt, or Queued when the record was re-queued for retry, or Cancelled
\* when the delivery was cancelled after that attempt.
C29_StatusIsLastAttemptQueuedOrCancelled ==
    Len(record.attempts) > 0 =>
        \/ record.status = LastAttempt.status
        \/ record.status = "queued" /\ record.retry_count > 0
        \/ record.status = "cancelled"

\* a record re-queued after a failed attempt has been cancelled
C29_Witness ==
    /\ Len(record.attempts) > 0
    /\ LastAttempt.status = "failed"
    /\ record.retry_count > 0
    /\ record.status = "cancelled"

\* attempt timestamps never go back along the list
AttemptsMonotone ==
    \A i, j \in 1 .. Len(record.attempts) :
        i < j => record.attempts[i].timestamp <= record.attempts[j].timestamp

\* update_delivery_status puts one attempt, stamped with the current time,
\* behind the attempts there were; every other step leaves the list alone
AttemptsAppendStep ==
    IF UpdateDeliveryStatusLogged
    THEN /\ Len(record'.attempts) = Len(record.attempts) + 1
         /\ SubSeq(record'.attempts, 1, Len(record.attempts)) = record.attempts
         /\ record'.attempts[Len(record'.attempts)].timestamp = now
    ELSE record'.attempts = record.attempts

\* C30: the attempts of a record are append-only: an update appends exactly
\* one attempt at the end, no step removes, reorders or alters an earlier
\* attempt, and the timestamps are in order along the list.
C30_AttemptsAppendOnly == []AttemptsMonotone /\ [][AttemptsAppendStep]_vars

\* two attempts made at different times are on the record
C30_Witness ==
    /\ Len(record.attempts) = 2
    /\ record.attempts[1].timestamp < record.attempts[2].timestamp
    /\ record.attempts[1].status /= record.attempts[2].status

\* C31: for the key (user-id, type, channel) at most one preference record
\* exists after any sequence of set_user_preference and
\* initialize_user_preferences calls.
C31_OnePreferencePerKey == Len(preferences.rows) <= 1

\* C32: after set_user_preference returned True, a read of the key
\* (get_user_preferences) and the row should_send_notification evaluates hold
\* the written value of the written setting.
C32_ReadAfterWrite ==
    (preferences.call.op = "set" /\ preferences.call.ok) =>
        IF SettingOf(preferences.call.name) = "is_enabled"
        THEN /\ GetUserPreferences.is_enabled = preferences.call.flag
             /\ FirstPreference.is_enabled = preferences.call.flag
        ELSE /\ GetUserPreferences.frequency = preferences.call.text
             /\ FirstPreference.frequency = preferences.call.text

\* C33: for the (type, channel) at most one template is active at any time,
\* after any sequence of create_template calls.
C33_OneActiveTemplate == Cardinality(ActiveTemplates) <= 1

\* C34: after any sequence of in-app sends to a user, the user's list holds
\* at most 100 entries, the most recent ones, newest first.
C34_InboxCapped ==
    /\ Len(inbox.list) <= InAppListCap
    /\ \A i \in 1 .. Len(inbox.list) : inbox.list[i] = inbox.sent + 1 - i

\* C35: every point added to the buffer is written to storage exactly once:
\* the points written and the points still buffered add up to the points
\* added, and no point is in the buffer once the process has exited.
C35_EveryPointFlushedOnce ==
    /\ metrics.flushed + Len(metrics.buffer) = metrics.points
    /\ ~metrics.alive => metrics.buffer = <<>>

\* C36: when send_notification schedules a retry after a failed delivery, the
\* Failed status and the incremented retry_count of that attempt are
\* committed, so the retried execution loads them.
C36_FailureCommittedBeforeRetry ==
    [][\A t \in TaskIds :
          (tasks[t].pc = "queued" /\ tasks'[t].pc = "waiting") =>
              /\ notif'.status = "failed"
              /\ notif'.retry_count = notif.retry_count + 1]_vars

\* C37: for the service name exactly one CircuitBreaker instance is ever
\* used, also when several threads route their first requests concurrently:
\* at most one instance is ever constructed, and no failure is counted on an
\* instance other than the one the registry holds.
C37_OneBreakerPerService ==
    /\ Len(registry.instances) <= 1
    /\ \A i \in 1 .. Len(registry.instances) :
           i /= registry.stored => registry.instances[i].failure_count = 0

\* C38: each pending notification under a daily or weekly preference is
\* included in exactly one batch notification and marked Sent exactly once,
\* also with two concurrent runs or a run that fails between creating the
\* batch row and marking the originals: no original is in the content of
\* two batch rows or marked twice, and a marked original is in one batch.
C38_BatchedExactlyOnce ==
    \A i \in Originals :
        /\ Cardinality(BatchesOf(i)) <= 1
        /\ batch.marks[i] <= 1
        /\ batch.status[i] = "sent" => Cardinality(BatchesOf(i)) = 1

\* C39: for a non-urgent request that gets as far as the channel loop, one
\* asynchronous send task is queued for every requested channel that the
\* user has enabled and that is registered, and the answer reports success
\* with one result entry per such channel.
C39_OneTaskPerChannel ==
    (/\ service.called
     /\ service.request.priority = "normal"
     /\ service.request.template
     /\ service.response.message /= "No enabled channels for user")
    => /\ \A ch \in ExpectedChannels : QueuedFor(ch) >= 1
       /\ \A i \in 1 .. Len(service.queued) : service.queued[i] \in ExpectedChannels
       /\ service.response.success
       /\ service.response.results = ExpectedChannels

\* C40: the IP becomes locked only after 5 invalid-token requests, is
\* refused with 403 only within 300 seconds of the locking moment, and
\* after the lock has expired it is locked again only after 5 further
\* invalid-token requests: every locking follows at least 5 invalid-token
\* requests made since the previous locking.
C40_LockedAfterFiveFurther ==
    /\ lockout.locked => lockout.failed_attempts >= FAILED_LOGIN_THRESHOLD
    /\ lockout.last = 403 =>
           /\ lockout.lock_run > 0
           /\ lockout.last_time - lockout.lock_time < LOCKOUT_DURATION
    /\ lockout.lock_run > 0 => lockout.lock_run >= FAILED_LOGIN_THRESHOLD

====
